---- MODULE Spec2Model ----
(***************************************************************************)
(* Telegram webhook bot: the update dispatcher (handle_update), the        *)
(* document-conversion pipeline (_handle_document_message), the contact    *)
(* acknowledgement with its append-only log, and the text command handler. *)
(* One webhook request is handled at a time; every remote call, the        *)
(* converter and the log write are collaborators whose outcome is chosen   *)
(* nondeterministically at the step that calls them.                       *)
(***************************************************************************)
EXTENDS Integers, Sequences, FiniteSets, TLC

(***************************************************************************)
(* Python values.  Every value carries a tag t; a JSON object is a record  *)
(* with t = "map" whose absent keys hold Missing.  A str is a sequence of  *)
(* one-character strings.                                                  *)
(***************************************************************************)
Missing == [t |-> "missing"]

None_ == [t |-> "none"]

PyInt(n) == [t |-> "int", n |-> n]

PyStr(s) == [t |-> "str", s |-> s]

PyList == [t |-> "list"]

IsMapping(v) == v.t = "map"

IsStr(v) == v.t = "str"

IsInt(v) == v.t = "int"

\* dict.get(key): an absent key reads as None
Get(v) == IF v = Missing THEN None_ ELSE v

\* dict.get(key, default)
GetDefault(v, d) == IF v = Missing THEN d ELSE v

\* Python truthiness of a value (None, 0, "" are falsy)
Truthy(v) ==
  CASE v.t = "missing" -> FALSE
    [] v.t = "none" -> FALSE
    [] v.t = "int" -> v.n # 0
    [] v.t = "str" -> v.s # <<>>
    [] OTHER -> TRUE

\* Python "a or b"
PyOr(a, b) == IF Truthy(a) THEN a ELSE b

(***************************************************************************)
(* str operations used by the handlers.                                    *)
(***************************************************************************)
Whitespace == {" ", "\t", "\n"}

UpperToLower == [A |-> "a", L |-> "l", R |-> "r", S |-> "s", T |-> "t", X |-> "x"]

LowerChar(c) == IF c \in DOMAIN UpperToLower THEN UpperToLower[c] ELSE c

\* str.lower()
Lower(s) == [i \in 1..Len(s) |-> LowerChar(s[i])]

RECURSIVE LStrip(_)
LStrip(s) == IF s # <<>> /\ Head(s) \in Whitespace THEN LStrip(Tail(s)) ELSE s

RECURSIVE RStrip(_)
RStrip(s) ==
  IF s # <<>> /\ s[Len(s)] \in Whitespace THEN RStrip(SubSeq(s, 1, Len(s) - 1)) ELSE s

\* str.strip()
Strip(s) == RStrip(LStrip(s))

RECURSIVE TakeToken(_)
TakeToken(s) ==
  IF s = <<>> \/ Head(s) \in Whitespace THEN <<>> ELSE <<Head(s)>> \o TakeToken(Tail(s))

\* str.split()[0] of a string that holds a non-whitespace character
FirstToken(s) == TakeToken(LStrip(s))

\* str.endswith(suffix)
EndsWith(s, suf) ==
  Len(s) >= Len(suf) /\ SubSeq(s, Len(s) - Len(suf) + 1, Len(s)) = suf

\* str.endswith(tuple of suffixes)
EndsWithAny(s, sufs) == \E suf \in sufs : EndsWith(s, suf)

(***************************************************************************)
(* Response payloads.                                                      *)
(***************************************************************************)
Status(s) == [status |-> s]

\* SendMessage addressed to one fixed chat instead of the chat it was given
SendMessage_ToFixedChat(chat_id, text) ==
  [method |-> "sendMessage", chat_id |-> [t |-> "int", n |-> 0], text |-> text]

SendMessage(chat_id, text) == [method |-> "sendMessage", chat_id |-> chat_id, text |-> text]

\* the user-facing texts of the pipeline (webhook_handlers.py), in English
TEXT_TOO_LARGE == <<"file too large (max 1MB)">>

TEXT_NO_TOKEN == <<"service not configured (no token)">>

TEXT_GETFILE_FAILED == <<"could not get the file from Telegram">>

TEXT_BAD_GETFILE_RESPONSE == <<"bad Telegram response when getting the file">>

TEXT_DOWNLOAD_FAILED == <<"could not download the file">>

TEXT_NO_CONVERTER == <<"converter is not available on the server">>

TEXT_CONVERSION_FAILED == <<"error while converting the file">>

TEXT_UPLOAD_FAILED == <<"could not send the converted file back">>

(***************************************************************************)
(* Text resources (texts.py).  A template is a str whose elements are      *)
(* pieces: literal text or a replacement field.                            *)
(***************************************************************************)
Lit(s) == [k |-> "lit", s |-> s]

\* "{name}"
Field(name) == [k |-> "field", s |-> name]

\* "{name.attribute}"
AttrField(name) == [k |-> "attr", s |-> name]

\* "{0}" or "{}"
IndexField == [k |-> "index", s |-> "0"]

\* a single "{" or "}"
BadBrace == [k |-> "bad", s |-> "{"]

DEFAULT_TEXTS ==
  [greeting_text |-> PyStr(<<"Hello! To continue, authorize by sharing your contact.">>),
   authorize_button_text |-> PyStr(<<"Authorize">>),
   contact_saved_template |->
     PyStr(<<Lit("Thanks! "), Field("contact_label"), Lit(" saved for authorization.")>>)]

TextKeys == {"greeting_text", "authorize_button_text", "contact_saved_template"}

\* TextResources.__init__: the defaults, overridden by the str values of data
TextResources(data) ==
  [key \in TextKeys |->
     IF Truthy(data) /\ IsMapping(data) /\ IsStr(data[key]) THEN data[key]
     ELSE DEFAULT_TEXTS[key]]

\* load_texts: the defaults unless the file holds a JSON object
load_texts(file) ==
  IF file.t \in {"absent", "unreadable", "invalid"} THEN TextResources(None_)
  ELSE IF ~IsMapping(file) THEN TextResources(None_)
  ELSE TextResources(file)

\* TextMessageHandler.__init__ called without keyword overrides
TextMessageHandlerInit(file) ==
  LET resources == load_texts(file) IN
  [greeting_text |-> resources["greeting_text"],
   authorize_button_text |-> resources["authorize_button_text"],
   contact_saved_template |-> resources["contact_saved_template"]]

\* the exception str.format raises at one piece, "none" when it renders
PieceError(p) ==
  CASE p.k = "lit" -> "none"
    [] p.k = "field" -> IF p.s = "contact_label" THEN "none" ELSE "KeyError"
    [] p.k = "attr" -> IF p.s = "contact_label" THEN "AttributeError" ELSE "KeyError"
    [] p.k = "index" -> "IndexError"
    [] OTHER -> "ValueError"

RECURSIVE FormatPieces(_, _)
\* template.format(contact_label=label): pieces are rendered left to right and
\* the first failing one raises
FormatPieces(tpl, label) ==
  IF tpl = <<>> THEN [exc |-> "none", text |-> <<>>]
  ELSE LET p == Head(tpl)
           e == PieceError(p)
           rest == FormatPieces(Tail(tpl), label)
       IN IF e # "none" THEN [exc |-> e, text |-> <<>>]
          ELSE IF rest.exc # "none" THEN rest
          ELSE [exc |-> "none",
                text |-> (IF p.k = "lit" THEN <<p.s>> ELSE label) \o rest.text]

(***************************************************************************)
(* Collaborator outcomes: a requests call either raises or returns a       *)
(* response with a status and a body.                                      *)
(***************************************************************************)
NotCalled == [k |-> "notcalled", e |-> "none", status |-> 0, body |-> None_]

Raises(e) == [k |-> "exc", e |-> e, status |-> 0, body |-> None_]

Resp(status, body) == [k |-> "resp", e |-> "none", status |-> status, body |-> body]

\* a local call (the converter, the log write) returned v
Returns(v) == [k |-> "ret", e |-> "none", status |-> 0, body |-> v]

\* requests.Response.raise_for_status raises for 4xx and 5xx
RaiseForStatus(o) == o.status >= 400 /\ o.status < 600

\* a call wrapped in try/except Exception failed (it raised, or its status did)
CallFailed(o) == o.k = "exc" \/ RaiseForStatus(o)

Bytes(n) == [t |-> "bytes", len |-> n]

\* r.json() of a body that is not JSON raises ValueError
InvalidJson == [t |-> "invalid"]

(***************************************************************************)
(* Document handler, lines 204-254: eligibility, declared size, token.     *)
(***************************************************************************)
MAX_BYTES == 1 * 1024 * 1024

supported_mimes == {PyStr(<<"application/vnd.ms-excel">>)}

supported_extensions == {<<".", "x", "l", "s">>, <<".", "x", "l", "x">>}

has_supported_mime(mime_type) == mime_type \in supported_mimes

\* has_supported_extension comparing the name as it is, without lower()
has_supported_extension_CaseSensitive(file_name) ==
  IsStr(file_name) /\ EndsWithAny(file_name.s, supported_extensions)

has_supported_extension(file_name) ==
  IsStr(file_name) /\ EndsWithAny(Lower(file_name.s), supported_extensions)

\* isinstance(chat_id, (int, str))
ValidChatId(chat_id) == IsInt(chat_id) \/ IsStr(chat_id)

\* the chat id a handler works with, None_ when the handler returns early
ChatIdOf(message) ==
  IF IsMapping(Get(message.chat)) THEN Get(message.chat.id) ELSE None_

\* lines 228-242 of a document that is a mapping: it is processed
Eligible(document) ==
  LET file_id == Get(document.file_id)
      file_name == PyOr(Get(document.file_name), Get(document.file_name))
      mime_type == GetDefault(document.mime_type, PyStr(<<>>))
  IN /\ IsStr(file_id)
     /\ IsStr(mime_type)
     /\ (has_supported_mime(mime_type) \/ has_supported_extension(file_name))

\* DeclaredTooLarge with the comparison off by one (>= for >)
DeclaredTooLarge_AtLeast(document) ==
  LET file_size == PyOr(Get(document.file_size), Get(document.file_size))
  IN IsInt(file_size) /\ file_size.n >= MAX_BYTES

\* line 246
DeclaredTooLarge(document) ==
  LET file_size == PyOr(Get(document.file_size), Get(document.file_size))
  IN IsInt(file_size) /\ file_size.n > MAX_BYTES

\* TokenMissing testing "token is None" for "not token"
TokenMissing_OnlyNone(tok) == tok = None_

\* line 252: "if not token"
TokenMissing(tok) == ~Truthy(tok)

\* line 287
DownloadedTooLarge(content) == content.len > MAX_BYTES

\* lines 204-242 do not return None: the document is taken for conversion
DocumentAccepted(message) ==
  /\ IsMapping(Get(message.document))
  /\ IsMapping(Get(message.chat))
  /\ ValidChatId(ChatIdOf(message))
  /\ Eligible(Get(message.document))

\* line 251 reads the token only when the checks before it pass
TokenIsRead(message) ==
  DocumentAccepted(message) /\ ~DeclaredTooLarge(Get(message.document))

\* DocumentPrecheck declining an oversized document instead of answering it
DocumentPrecheck_TooLargeFallsThrough(message, tok) ==
  LET document == Get(message.document)
      chat_id == ChatIdOf(message)
  IN IF ~DocumentAccepted(message) \/ DeclaredTooLarge(document)
     THEN [k |-> "none", v |-> None_]
     ELSE IF TokenMissing(tok)
          THEN [k |-> "reply", v |-> SendMessage(chat_id, TEXT_NO_TOKEN)]
     ELSE [k |-> "next", v |-> None_]

\* what lines 204-254 come to: "none" (return None), "reply" (a terminal
\* message, v) or "next" (on to the notification)
DocumentPrecheck(message, tok) ==
  LET document == Get(message.document)
      chat_id == ChatIdOf(message)
  IN IF ~DocumentAccepted(message) THEN [k |-> "none", v |-> None_]
     ELSE IF DeclaredTooLarge(document)
          THEN [k |-> "reply", v |-> SendMessage(chat_id, TEXT_TOO_LARGE)]
     ELSE IF TokenMissing(tok)
          THEN [k |-> "reply", v |-> SendMessage(chat_id, TEXT_NO_TOKEN)]
     ELSE [k |-> "next", v |-> None_]

(***************************************************************************)
(* Pipeline stages, lines 256-317.  Each operator maps the outcome of the  *)
(* stage's call to "next" (go on), "reply" (return v) or "raise" (the      *)
(* exception v leaves the handler).                                        *)
(***************************************************************************)
\* NotifyResult without the try/except: a failed notification leaves the handler
NotifyResult_Propagates(o) ==
  IF CallFailed(o) THEN [k |-> "raise", v |-> "RequestException"]
  ELSE [k |-> "next", v |-> None_]

\* _notify_file_processing, lines 408-423: every failure is caught and logged
NotifyResult(o) == [k |-> "next", v |-> None_]

\* GetFileResult answering a response without a file path like a failed call
GetFileResult_OneMessage(o, chat_id) ==
  IF CallFailed(o) \/ o.body = InvalidJson \/ ~IsMapping(o.body)
  THEN [k |-> "reply", v |-> SendMessage(chat_id, TEXT_GETFILE_FAILED)]
  ELSE LET result == PyOr(Get(o.body.result), [t |-> "map", file_path |-> Missing])
       IN IF ~IsMapping(result) THEN [k |-> "raise", v |-> "AttributeError"]
          ELSE IF ~IsStr(Get(result.file_path))
               THEN [k |-> "reply", v |-> SendMessage(chat_id, TEXT_GETFILE_FAILED)]
          ELSE [k |-> "next", v |-> None_]

\* lines 258-273
GetFileResult(o, chat_id) ==
  IF CallFailed(o) \/ o.body = InvalidJson \/ ~IsMapping(o.body)
  THEN [k |-> "reply", v |-> SendMessage(chat_id, TEXT_GETFILE_FAILED)]
  ELSE LET result == PyOr(Get(o.body.result), [t |-> "map", file_path |-> Missing])
       IN IF ~IsMapping(result) THEN [k |-> "raise", v |-> "AttributeError"]
          ELSE IF ~IsStr(Get(result.file_path))
               THEN [k |-> "reply", v |-> SendMessage(chat_id, TEXT_BAD_GETFILE_RESPONSE)]
          ELSE [k |-> "next", v |-> None_]

\* DownloadResult whose except branch logs and goes on
DownloadResult_GoesOn(o, chat_id) ==
  IF CallFailed(o) THEN [k |-> "next", v |-> None_]
  ELSE IF DownloadedTooLarge(o.body)
       THEN [k |-> "reply", v |-> SendMessage(chat_id, TEXT_TOO_LARGE)]
  ELSE [k |-> "next", v |-> None_]

\* DownloadResult trusting the declared size: no check of the downloaded length
DownloadResult_NoSizeCheck(o, chat_id) ==
  IF CallFailed(o) THEN [k |-> "reply", v |-> SendMessage(chat_id, TEXT_DOWNLOAD_FAILED)]
  ELSE [k |-> "next", v |-> None_]

\* lines 277-288
DownloadResult(o, chat_id) ==
  IF CallFailed(o) THEN [k |-> "reply", v |-> SendMessage(chat_id, TEXT_DOWNLOAD_FAILED)]
  ELSE IF DownloadedTooLarge(o.body)
       THEN [k |-> "reply", v |-> SendMessage(chat_id, TEXT_TOO_LARGE)]
  ELSE [k |-> "next", v |-> None_]

\* ConvertResult appending the cause of the failure to the text it answers
ConvertResult_ExposesCause(o, chat_id) ==
  IF o.k = "exc"
  THEN [k |-> "reply", v |-> SendMessage(chat_id, TEXT_CONVERSION_FAILED \o <<o.e>>)]
  ELSE [k |-> "next", v |-> None_]

\* lines 295-301: the converter raised, or returned the converted bytes
ConvertResult(o, chat_id) ==
  IF o.k = "exc" THEN [k |-> "reply", v |-> SendMessage(chat_id, TEXT_CONVERSION_FAILED)]
  ELSE [k |-> "next", v |-> None_]

\* lines 303-317
UploadResult(o, chat_id) ==
  IF CallFailed(o) THEN [k |-> "reply", v |-> SendMessage(chat_id, TEXT_UPLOAD_FAILED)]
  ELSE [k |-> "reply", v |-> Status("sent")]

(***************************************************************************)
(* Contact handler, lines 173-196 and 319-406.                             *)
(***************************************************************************)
\* lines 174-182 do not return None
ContactAccepted(message) ==
  /\ IsMapping(Get(message.contact))
  /\ IsMapping(Get(message.chat))
  /\ ValidChatId(ChatIdOf(message))

\* prepare_contact_payload copying the document of the message into the record
prepare_contact_payload_WithDocument(chat_id, message) ==
  [chat_id |-> chat_id,
   contact |-> Get(message.contact),
   message_id |-> IF IsInt(Get(message.message_id)) THEN message.message_id ELSE Missing,
   date |-> IF IsInt(Get(message.date)) THEN message.date ELSE Missing,
   from |-> IF IsMapping(Get(message.from)) THEN message.from ELSE Missing,
   document |-> Get(message.document)]

\* _prepare_contact_payload: the record written to the log; an omitted key
\* holds Missing
prepare_contact_payload(chat_id, message) ==
  [chat_id |-> chat_id,
   contact |-> Get(message.contact),
   message_id |-> IF IsInt(Get(message.message_id)) THEN message.message_id ELSE Missing,
   date |-> IF IsInt(Get(message.date)) THEN message.date ELSE Missing,
   from |-> IF IsMapping(Get(message.from)) THEN message.from ELSE Missing]

\* name_parts keeping the names as they came, untrimmed
name_parts_Untrimmed(contact) ==
  SelectSeq(
    [i \in 1..2 |->
       LET part == Get(IF i = 1 THEN contact.first_name ELSE contact.last_name)
       IN IF IsStr(part) /\ Strip(part.s) # <<>> THEN part.s ELSE <<>>],
    LAMBDA part : part # <<>>)

\* lines 331-335
name_parts(contact) ==
  SelectSeq(
    [i \in 1..2 |->
       LET part == Get(IF i = 1 THEN contact.first_name ELSE contact.last_name)
       IN IF IsStr(part) THEN Strip(part.s) ELSE <<>>],
    LAMBDA part : part # <<>>)

\* lines 336-341
contact_label(contact) ==
  LET parts == name_parts(contact)
      phone == Get(contact.phone_number)
  IN IF parts # <<>>
     THEN (IF Len(parts) = 2 THEN parts[1] \o <<" ">> \o parts[2] ELSE parts[1])
     ELSE IF IsStr(phone) /\ Strip(phone.s) # <<>> THEN Strip(phone.s)
     ELSE <<"contact">>

\* lines 343-357: "reply" with the acknowledgement, or "raise" when format
\* raises something other than KeyError, IndexError or ValueError
Acknowledgement(handler, chat_id, contact) ==
  LET label == contact_label(contact)
      template == PyOr(handler.contact_saved_template, DEFAULT_TEXTS.contact_saved_template)
      made == FormatPieces(template.s, label)
  IN IF made.exc = "none" THEN [k |-> "reply", v |-> SendMessage(chat_id, made.text)]
     ELSE IF made.exc \in {"KeyError", "IndexError", "ValueError"}
          THEN [k |-> "reply",
                v |-> SendMessage(chat_id,
                        FormatPieces(DEFAULT_TEXTS.contact_saved_template.s, label).text)]
     ELSE [k |-> "raise", v |-> made.exc]

(***************************************************************************)
(* Text handler, lines 64-96 and 160-171.                                  *)
(***************************************************************************)
\* the keys of TextMessageHandler._command_handlers
command_handlers == {<<"/", "s", "t", "a", "r", "t">>}

\* _handle_start
handle_start(handler, chat_id) ==
  [method |-> "sendMessage",
   chat_id |-> chat_id,
   text |-> handler.greeting_text.s,
   reply_markup |->
     [keyboard |-> <<<<[text |-> handler.authorize_button_text.s, request_contact |-> TRUE]>>>>,
      resize_keyboard |-> TRUE,
      one_time_keyboard |-> TRUE]]

\* handle looking the token up as it was typed, without lower()
handle_CaseSensitive(handler, chat_id, text) ==
  LET normalized == Strip(text) IN
  IF normalized = <<>> THEN None_
  ELSE IF FirstToken(normalized) \notin command_handlers THEN None_
  ELSE handle_start(handler, chat_id)

\* TextMessageHandler.handle: a payload, or None_
handle(handler, chat_id, text) ==
  LET normalized == Strip(text) IN
  IF normalized = <<>> THEN None_
  ELSE IF Lower(FirstToken(normalized)) \notin command_handlers THEN None_
  ELSE handle_start(handler, chat_id)

\* handle_text_message without the checks of the chat (lines 164-169)
handle_text_message_NoChatCheck(handler, message) ==
  IF ~IsStr(Get(message.text)) THEN None_
  ELSE handle(handler, ChatIdOf(message), message.text.s)

\* _handle_text_message
handle_text_message(handler, message) ==
  IF ~IsStr(Get(message.text)) \/ ~IsMapping(Get(message.chat)) THEN None_
  ELSE IF ~ValidChatId(ChatIdOf(message)) THEN None_
  ELSE handle(handler, ChatIdOf(message), message.text.s)

(***************************************************************************)
(* Inputs: the updates a webhook request can carry, the token values the   *)
(* environment can hold, the texts files the handler can be built from and *)
(* the outcomes of each collaborator.                                      *)
(***************************************************************************)
\* the contact log stops accepting requests once it holds this many lines
MaxLogLines == 1

Chat(id) == [t |-> "map", id |-> id]

Document(file_id, file_name, mime_type, file_size) ==
  [t |-> "map", file_id |-> file_id, file_name |-> file_name,
   mime_type |-> mime_type, file_size |-> file_size]

Contact(first_name, last_name, phone_number) ==
  [t |-> "map", first_name |-> first_name, last_name |-> last_name,
   phone_number |-> phone_number]

Message(chat, text, contact, document, message_id) ==
  [t |-> "map", chat |-> chat, text |-> text, contact |-> contact,
   document |-> document, message_id |-> message_id,
   date |-> PyInt(1700000000), from |-> Missing]

Update(message) == [t |-> "map", message |-> message]

ValidChatIds == {PyInt(7), PyStr(<<"@", "c">>)}

Chats == {Missing, PyList, Chat(Missing)} \cup {Chat(id) : id \in ValidChatIds}

XlsMime == PyStr(<<"application/vnd.ms-excel">>)

FileNames ==
  {Missing,
   PyStr(<<"r", ".", "X", "L", "S">>),
   PyStr(<<"a", ".", "x", "l", "x">>),
   PyStr(<<"r", ".", "d", "o", "c", "x">>)}

MimeTypes == {Missing, None_, XlsMime, PyStr(<<"text/plain">>)}

FileSizes ==
  {Missing, PyInt(0), PyInt(MAX_BYTES), PyInt(MAX_BYTES + 1), PyStr(<<"9", "9">>)}

Documents ==
  {Document(PyStr(<<"F">>), n, m, Missing) : n \in FileNames, m \in MimeTypes}
  \cup {Document(PyStr(<<"F">>), Missing, XlsMime, z) : z \in FileSizes}
  \cup {Document(PyStr(<<"F">>), PyStr(<<"r", ".", "X", "L", "S">>), Missing, z) :
          z \in FileSizes}
  \cup {Document(f, Missing, XlsMime, Missing) : f \in {Missing, PyInt(1)}}
  \cup {Document(PyStr(<<"F">>), PyStr(<<"r", ".", "d", "o", "c", "x">>),
                  PyStr(<<"text/plain">>), PyInt(MAX_BYTES + 1))}

ContactAnn == Contact(PyStr(<<"A", "n", "n">>), Missing, Missing)

Contacts ==
  {Missing, PyList, ContactAnn,
   Contact(PyStr(<<" ">>), PyInt(1), PyStr(<<"+", "1", " ">>))}

Texts ==
  {Missing, PyInt(1), PyStr(<<" ">>),
   PyStr(<<"/", "s", "t", "a", "r", "t">>),
   PyStr(<<" ", "/", "S", "T", "A", "R", "T", " ", "x">>),
   PyStr(<<"/", "u", "n", "k", "n", "o", "w", "n", " ", "a", "r", "g">>)}

\* messages that carry a document, alone or beside a contact or a command
DocumentMessages ==
  {Message(c, x, k, d, Missing) :
     c \in Chats, x \in {Missing, PyStr(<<"/", "s", "t", "a", "r", "t">>)},
     k \in {Missing, ContactAnn}, d \in Documents}

\* messages whose document, if any, is not taken for conversion
PlainMessages ==
  {Message(c, x, k, d, i) :
     c \in Chats, x \in Texts, k \in Contacts,
     d \in {Missing, PyList}, i \in {Missing, PyInt(5)}}

Updates ==
  {None_, PyList, PyStr(<<"u">>), PyInt(3), Update(Missing), Update(PyList)}
  \cup {Update(m) : m \in DocumentMessages \cup PlainMessages}

\* os.getenv("TELEGRAM_BOT_TOKEN"): unset, empty, set
Tokens == {None_, PyStr(<<>>), PyStr(<<"T">>)}

\* what texts.json can be when the handler is built
TextsFiles ==
  {[t |-> "absent"],
   [t |-> "map",
    greeting_text |-> PyStr(<<"Welcome">>),
    authorize_button_text |-> PyStr(<<"Share contact">>),
    contact_saved_template |-> PyStr(<<Lit("Saved: "), Field("contact_label")>>)],
   [t |-> "map",
    greeting_text |-> PyInt(1),
    authorize_button_text |-> Missing,
    contact_saved_template |-> PyStr(<<Lit("Saved "), Field("name")>>)]}

NotifyOutcomes == {Resp(200, None_), Resp(500, None_), Raises("Timeout")}

GetFileBodies ==
  {InvalidJson, PyList,
   [t |-> "map", result |-> Missing],
   [t |-> "map", result |-> PyStr(<<"x">>)],
   [t |-> "map", result |-> [t |-> "map", file_path |-> Missing]],
   [t |-> "map", result |-> [t |-> "map", file_path |-> PyInt(1)]],
   [t |-> "map", result |-> [t |-> "map", file_path |-> PyStr(<<"documents/f.xls">>)]]}

GetFileOutcomes ==
  {Raises("ConnectionError"), Raises("Timeout"), Resp(500, None_)}
  \cup {Resp(200, b) : b \in GetFileBodies}

DownloadOutcomes ==
  {Raises("Timeout"), Resp(404, None_)}
  \cup {Resp(200, Bytes(n)) : n \in {1, MAX_BYTES, MAX_BYTES + 1}}

ConvertOutcomes ==
  {Raises("RuntimeError: soffice not found"), Raises("RuntimeError: exit code 1"),
   Returns(Bytes(2))}

UploadOutcomes == {Raises("Timeout"), Resp(500, None_), Resp(200, None_)}

PersistOutcomes == {Raises("OSError: mkdir"), Raises("OSError: open"), Returns(None_)}

(***************************************************************************)
(* State.                                                                  *)
(***************************************************************************)
VARIABLES
  pc,            \* where the request being handled is
  update,        \* the decoded body of the request (main.py line 16)
  token,         \* the token read at line 251, Missing when it was not read
  response,      \* the payload handle_update returned, None_ before it returns
  exc,           \* the exception that left handle_update, "none" otherwise
  http,          \* the HTTP status the webhook caller received, 0 before it
  calls,         \* the collaborator calls of this request, in order
  invoked,       \* the handlers handle_update invoked, in order
  hres,          \* what each invoked handler returned
  stage,         \* the outcome of each collaborator call of this request
  contactLog,    \* the lines of authorized_contacts.jsonl
  converter,     \* convert_xls_bytes_to_xlsx_bytes was imported (lines 15-19)
  text_handler,  \* the TextMessageHandler built at construction
  cv_pc,         \* where the running call of convert_xls_bytes_to_xlsx_bytes is
  tmp_dirs,      \* the temporary directories that exist on the disk
  tmp_dir,       \* the directory of the running call (xls_to_xlsx.py line 45), 0 before
  run_result,    \* what subprocess.run came to (line 61)
  cv_outcome,    \* what the last call returned or raised
  cv_calls,      \* the number of calls of the converter made so far
  runs           \* the requests with a document handled at the same time, each with its locals

\* the state of xls_to_xlsx.py
converter_vars == <<cv_pc, tmp_dirs, tmp_dir, run_result, cv_outcome, cv_calls>>

\* the state of the webhook
request_vars ==
  <<pc, update, token, response, exc, http, calls, invoked, hres, stage,
    contactLog, converter, text_handler>>

\* the state of the webhook, with the requests that run side by side
handler_vars == <<request_vars, runs>>

vars == <<handler_vars, converter_vars>>

Stages == {"notify", "getFile", "download", "convert", "upload", "persist"}

Call(name, arg) == [call |-> name, arg |-> arg]

\* the message of the update being handled
message == update.message

chat_id == ChatIdOf(message)

document == message.document

\* file_path of the getFile response (line 271)
file_path == stage["getFile"].body.result.file_path

\* r2.content (line 281)
xls_bytes == stage["download"].body

\* the name the converted file is uploaded under (line 306)
upload_name == PyOr(PyOr(Get(document.file_name), Get(document.file_name)),
                    PyStr(<<"converted.xlsx">>))

(***************************************************************************)
(* convert_xls_bytes_to_xlsx_bytes (xls_to_xlsx.py), step by step.         *)
(***************************************************************************)
\* the converter stops being called after this many calls
MaxConverterCalls == 2

\* an exception with its message, the pieces of the str in order
RaisesMessage(e, msg) == [k |-> "exc", e |-> e, msg |-> msg, body |-> None_]

ReturnsBytes(b) == [k |-> "ret", e |-> "none", msg |-> <<>>, body |-> b]

NoOutcome == [k |-> "notcalled", e |-> "none", msg |-> <<>>, body |-> None_]

\* bytes.decode("utf-8", errors="ignore"): the bytes that are not UTF-8 are dropped
Decode(bytes) == SelectSeq(bytes, LAMBDA b : b # "\\xff")

\* lines 35-38
MESSAGE_NOT_FOUND == <<"LibreOffice 'soffice' executable not found.">>

\* line 70
MESSAGE_NOT_EXECUTED == <<"LibreOffice 'soffice' executable could not be executed.">>

\* lines 75-78
MessageConversionFailed(returncode, stderr) ==
  <<"LibreOffice conversion failed with exit code ", ToString(returncode), ": ">>
    \o Strip(Decode(stderr))

\* line 91
MESSAGE_NO_OUTPUT == <<"LibreOffice conversion did not produce an output file.">>

\* what the process can write to its stderr
Stderrs == {<<>>, <<"E", "r", "r">>, <<" ", "\\xff", "n", "o", "\n">>}

\* what subprocess.run comes to: the executable is not there or cannot be
\* run, the process exits with a non-zero code, or with 0
RunOutcomes ==
  {[k |-> "exc", e |-> e, returncode |-> 0, stderr |-> <<>>] :
     e \in {"FileNotFoundError", "PermissionError"}}
  \cup {[k |-> "exc", e |-> "CalledProcessError", returncode |-> c, stderr |-> err] :
          c \in {1, 77}, err \in Stderrs}
  \cup {[k |-> "ret", e |-> "none", returncode |-> 0, stderr |-> err] : err \in Stderrs}

NoRun == [k |-> "notcalled", e |-> "none", returncode |-> 0, stderr |-> <<>>]

ConverterInit ==
  /\ cv_pc = "idle"
  /\ tmp_dirs = {}
  /\ tmp_dir = 0
  /\ run_result = NoRun
  /\ cv_outcome = NoOutcome
  /\ cv_calls = 0

\* the function is called (line 14)
CallConverter ==
  /\ cv_pc = "idle"
  /\ cv_calls < MaxConverterCalls
  /\ cv_calls' = cv_calls + 1
  /\ cv_pc' = "resolve"
  /\ tmp_dir' = 0
  /\ run_result' = NoRun
  /\ cv_outcome' = NoOutcome
  /\ UNCHANGED <<handler_vars, tmp_dirs>>

\* lines 33-42: SOFFICE_PATH or shutil.which("soffice")
ResolveSoffice ==
  /\ cv_pc = "resolve"
  /\ \E soffice_path \in {None_, PyStr(<<>>), PyStr(<<"/usr/bin/soffice">>)} :
       IF ~Truthy(soffice_path)
       THEN /\ cv_outcome' = RaisesMessage("RuntimeError", MESSAGE_NOT_FOUND)
            /\ cv_pc' = "done"
       ELSE /\ cv_outcome' = cv_outcome
            /\ cv_pc' = "mkdtemp"
  /\ UNCHANGED <<handler_vars, tmp_dirs, tmp_dir, run_result, cv_calls>>

\* line 44, TemporaryDirectory(): the directory is created, or mkdtemp raises
MakeTemporaryDirectory ==
  /\ cv_pc = "mkdtemp"
  /\ \E made \in BOOLEAN :
       IF made
       THEN /\ tmp_dir' = cv_calls
            /\ tmp_dirs' = tmp_dirs \cup {cv_calls}
            /\ cv_outcome' = cv_outcome
            /\ cv_pc' = "write"
       ELSE /\ cv_outcome' = RaisesMessage("OSError", <<"mkdtemp">>)
            /\ cv_pc' = "done"
            /\ UNCHANGED <<tmp_dir, tmp_dirs>>
  /\ UNCHANGED <<handler_vars, run_result, cv_calls>>

\* a step inside the with block that raises e goes to the block's exit
LeaveBlock(outcome) ==
  /\ cv_outcome' = outcome
  /\ cv_pc' = "exit"

\* line 48: input_path.write_bytes
WriteInput ==
  /\ cv_pc = "write"
  /\ \E written \in BOOLEAN :
       IF written THEN cv_pc' = "run" /\ cv_outcome' = cv_outcome
       ELSE LeaveBlock(RaisesMessage("OSError", <<"write_bytes">>))
  /\ UNCHANGED <<handler_vars, tmp_dirs, tmp_dir, run_result, cv_calls>>

\* lines 60-79: subprocess.run(check=True) and its two except clauses
RunSoffice ==
  /\ cv_pc = "run"
  /\ \E r \in RunOutcomes :
       /\ run_result' = r
       /\ CASE r.k = "ret" -> cv_pc' = "exists" /\ cv_outcome' = cv_outcome
            [] r.e = "FileNotFoundError" ->
                 LeaveBlock(RaisesMessage("RuntimeError", MESSAGE_NOT_EXECUTED))
            [] r.e = "CalledProcessError" ->
                 LeaveBlock(RaisesMessage("RuntimeError",
                                          MessageConversionFailed(r.returncode, r.stderr)))
            [] OTHER -> LeaveBlock(RaisesMessage(r.e, <<"subprocess.run">>))
  /\ UNCHANGED <<handler_vars, tmp_dirs, tmp_dir, cv_calls>>

\* lines 81-91: output_path.exists()
CheckOutput ==
  /\ cv_pc = "exists"
  /\ \E exists \in BOOLEAN :
       IF exists THEN cv_pc' = "read" /\ cv_outcome' = cv_outcome
       ELSE LeaveBlock(RaisesMessage("RuntimeError", MESSAGE_NO_OUTPUT))
  /\ UNCHANGED <<handler_vars, tmp_dirs, tmp_dir, run_result, cv_calls>>

\* line 93: output_path.read_bytes()
ReadOutput ==
  /\ cv_pc = "read"
  /\ \E read \in BOOLEAN :
       IF read THEN LeaveBlock(ReturnsBytes(Bytes(2)))
       ELSE LeaveBlock(RaisesMessage("OSError", <<"read_bytes">>))
  /\ UNCHANGED <<handler_vars, tmp_dirs, tmp_dir, run_result, cv_calls>>

\* TemporaryDirectory.__exit__ keeping the directory when the block raised
ExitBlock_KeepsOnError ==
  /\ cv_pc = "exit"
  /\ tmp_dirs' = IF cv_outcome.k = "exc" THEN tmp_dirs ELSE tmp_dirs \ {tmp_dir}
  /\ cv_pc' = "done"
  /\ UNCHANGED <<handler_vars, tmp_dir, run_result, cv_outcome, cv_calls>>

\* the end of the with block of line 44: TemporaryDirectory.__exit__ removes
\* the directory, however the block was left
ExitBlock ==
  /\ cv_pc = "exit"
  /\ tmp_dirs' = tmp_dirs \ {tmp_dir}
  /\ cv_pc' = "done"
  /\ UNCHANGED <<handler_vars, tmp_dir, run_result, cv_outcome, cv_calls>>

\* the call is over: it returned, or what it raised is with its caller
ConverterEnds ==
  /\ cv_pc = "done"
  /\ cv_pc' = "idle"
  /\ UNCHANGED <<handler_vars, tmp_dirs, tmp_dir, run_result, cv_outcome, cv_calls>>

(***************************************************************************)
(* Two requests inside _handle_document_message at the same time: main.py  *)
(* calls handle_update of the one handler object from every request, and   *)
(* every value of lines 204-317 is a local of the call.                    *)
(***************************************************************************)
Runs == {1, 2}

\* the locals of a request that is not in the pipeline
NoRunning ==
  [pc |-> "idle", message |-> None_, stage |-> [s \in Stages |-> NotCalled],
   calls |-> <<>>, response |-> None_, exc |-> "none"]

RunsInit == runs = [r \in Runs |-> NoRunning]

\* the messages of the requests: documents taken for conversion, from one
\* chat or from two
RunMessages ==
  {Message(Chat(id), Missing, Missing,
           Document(PyStr(<<"F">>), PyStr(<<"r", ".", "X", "L", "S">>), XlsMime, Missing),
           Missing) : id \in ValidChatIds}

\* chat_id of the request (line 210)
RunChatId(r) == ChatIdOf(runs[r].message)

\* file_name or "converted.xlsx" of the request (line 306)
RunUploadName(r) ==
  PyOr(PyOr(Get(runs[r].message.document.file_name),
            Get(runs[r].message.document.file_name)),
       PyStr(<<"converted.xlsx">>))

\* StartRun keeping the message on the handler object, where the requests
\* in flight read it
StartRun_OnHandlerObject ==
  \E r \in Runs, m \in RunMessages, tok \in Tokens :
    /\ runs[r].pc = "idle"
    /\ DocumentPrecheck(m, tok).k = "next"
    /\ runs' = [q \in Runs |->
                 IF q = r THEN [NoRunning EXCEPT !.pc = "notify", !.message = m]
                 ELSE IF runs[q].pc = "idle" THEN runs[q]
                 ELSE [runs[q] EXCEPT !.message = m]]
    /\ UNCHANGED <<converter_vars, request_vars>>

\* lines 204-254 of a request whose document is taken: on to the notification
StartRun ==
  \E r \in Runs, m \in RunMessages, tok \in Tokens :
    /\ runs[r].pc = "idle"
    /\ DocumentPrecheck(m, tok).k = "next"
    /\ runs' = [runs EXCEPT ![r] = [NoRunning EXCEPT !.pc = "notify", !.message = m]]
    /\ UNCHANGED <<converter_vars, request_vars>>

\* one collaborator call of request r with outcome o, which comes to res
RunCall(r, here, next, call, o, res) ==
  /\ runs[r].pc = here
  /\ runs' = [runs EXCEPT
               ![r].pc = CASE res.k = "next" -> next
                           [] res.k = "reply" -> "return"
                           [] OTHER -> "raised",
               ![r].stage[here] = o,
               ![r].calls = Append(@, call),
               ![r].response = IF res.k = "reply" THEN res.v ELSE @,
               ![r].exc = IF res.k = "raise" THEN res.v ELSE @]
  /\ UNCHANGED <<converter_vars, request_vars>>

\* line 256 and _notify_file_processing
RunNotify ==
  \E r \in Runs, o \in NotifyOutcomes :
    RunCall(r, "notify", "getFile", Call("sendMessage", RunChatId(r)), o, NotifyResult(o))

\* lines 258-273
RunGetFile ==
  \E r \in Runs, o \in GetFileOutcomes :
    RunCall(r, "getFile", "download", Call("getFile", runs[r].message.document.file_id),
            o, GetFileResult(o, RunChatId(r)))

\* lines 275-288
RunDownload ==
  \E r \in Runs, o \in DownloadOutcomes :
    RunCall(r, "download", "convert",
            Call("download", runs[r].stage["getFile"].body.result.file_path),
            o, DownloadResult(o, RunChatId(r)))

\* lines 290-293
RunConverterUnavailable ==
  \E r \in Runs :
    /\ runs[r].pc = "convert"
    /\ ~converter
    /\ runs' = [runs EXCEPT ![r].pc = "return",
                            ![r].response = SendMessage(RunChatId(r), TEXT_NO_CONVERTER)]
    /\ UNCHANGED <<converter_vars, request_vars>>

\* lines 295-301
RunConvert ==
  /\ converter
  /\ \E r \in Runs, o \in ConvertOutcomes :
       RunCall(r, "convert", "upload", Call("convert", runs[r].stage["download"].body),
               o, ConvertResult(o, RunChatId(r)))

\* lines 303-317
RunUpload ==
  \E r \in Runs, o \in UploadOutcomes :
    RunCall(r, "upload", "return", Call("sendDocument", RunUploadName(r)),
            o, UploadResult(o, RunChatId(r)))

\* main.py line 18, or Flask's answer to an exception: the request is over
RunEnds ==
  \E r \in Runs :
    /\ runs[r].pc \in {"return", "raised"}
    /\ runs' = [runs EXCEPT ![r] = NoRunning]
    /\ UNCHANGED <<converter_vars, request_vars>>

Init ==
  /\ ConverterInit
  /\ RunsInit
  /\ pc = "idle"
  /\ update = None_
  /\ token = Missing
  /\ response = None_
  /\ exc = "none"
  /\ http = 0
  /\ calls = <<>>
  /\ invoked = <<>>
  /\ hres = <<>>
  /\ stage = [s \in Stages |-> NotCalled]
  /\ contactLog = <<>>
  /\ converter \in BOOLEAN
  /\ text_handler \in {TextMessageHandlerInit(f) : f \in TextsFiles}

\* main.py line 16: a request arrives and its body is decoded
Receive ==
  /\ pc = "idle"
  /\ Len(contactLog) < MaxLogLines
  /\ \E u \in Updates : update' = u
  /\ pc' = "handle_update"
  /\ http' = 0
  /\ UNCHANGED <<converter_vars, runs, token, response, exc, calls, invoked, hres, stage, contactLog,
                 converter, text_handler>>

\* Dispatch reading a non-mapping body as an empty update ("update or {}")
Dispatch_NonMappingAsEmpty(u) ==
  IF IsMapping(u) /\ IsMapping(Get(u.message)) THEN [k |-> "next", v |-> None_]
  ELSE [k |-> "reply", v |-> Status("ok")]

\* handle_update lines 138-143 and 158: "reply" without invoking a handler, or
\* "next" (on to the handlers)
Dispatch(u) ==
  IF ~IsMapping(u) THEN [k |-> "reply", v |-> Status("ignored")]
  ELSE IF IsMapping(Get(u.message)) THEN [k |-> "next", v |-> None_]
  ELSE [k |-> "reply", v |-> Status("ok")]

\* NextHandler trying the contact handler before the document handler
NextHandler_ContactFirst(h) ==
  CASE h = "handle_update" -> "contact"
    [] h = "contact" -> "document"
    [] h = "document" -> "text"
    [] OTHER -> "return"

\* handle_update lines 146-158: the handler tried after h returned None
NextHandler(h) ==
  CASE h = "handle_update" -> "document"
    [] h = "document" -> "contact"
    [] h = "contact" -> "text"
    [] OTHER -> "return"

\* handle_update, lines 138-146 and 158
HandleUpdate ==
  /\ pc = "handle_update"
  /\ pc' = IF Dispatch(update).k = "next" THEN NextHandler("handle_update") ELSE "return"
  /\ response' = IF Dispatch(update).k = "next" THEN response ELSE Dispatch(update).v
  /\ UNCHANGED <<converter_vars, runs, update, token, exc, http, calls, invoked, hres, stage,
                 contactLog, converter, text_handler>>

\* a handler step that came to r: go on, return r.v or raise r.v
Outcome(r, next) ==
  /\ pc' = CASE r.k = "next" -> next
             [] r.k = "reply" -> "return"
             [] r.k = "none" -> next
             [] OTHER -> "raised"
  /\ response' = IF r.k = "reply" THEN r.v ELSE response
  /\ hres' = CASE r.k = "reply" -> Append(hres, r.v)
               [] r.k = "none" -> Append(hres, None_)
               [] OTHER -> hres
  /\ exc' = IF r.k = "raise" THEN r.v ELSE exc

\* _handle_document_message, lines 204-254
DocumentMessage ==
  /\ pc = "document"
  /\ invoked' = Append(invoked, "document")
  /\ \E tok \in Tokens :
       /\ token' = IF TokenIsRead(message) THEN tok ELSE Missing
       /\ LET r == DocumentPrecheck(message, tok)
          IN Outcome(r, IF r.k = "none" THEN NextHandler("document") ELSE "notify")
  /\ UNCHANGED <<converter_vars, runs, update, http, calls, stage, contactLog, converter, text_handler>>

\* one collaborator call of the pipeline with outcome o, which comes to r
PipelineCall(here, next, call, o, r) ==
  /\ pc = here
  /\ calls' = Append(calls, call)
  /\ stage' = [stage EXCEPT ![here] = o]
  /\ Outcome(r, next)
  /\ UNCHANGED <<converter_vars, runs, update, token, http, invoked, contactLog, converter, text_handler>>

\* line 256 and _notify_file_processing
Notify ==
  \E o \in NotifyOutcomes :
    PipelineCall("notify", "getFile", Call("sendMessage", chat_id), o, NotifyResult(o))

\* lines 258-273
GetFile ==
  \E o \in GetFileOutcomes :
    PipelineCall("getFile", "download", Call("getFile", document.file_id), o,
                 GetFileResult(o, chat_id))

\* lines 275-288
Download ==
  \E o \in DownloadOutcomes :
    PipelineCall("download", "convert", Call("download", file_path), o,
                 DownloadResult(o, chat_id))

\* ConverterUnavailable without the check of line 291: the name that holds None
\* is called, and the TypeError is caught by lines 299-301
ConverterUnavailable_CallsAnyway ==
  /\ ~converter
  /\ PipelineCall("convert", "upload", Call("convert", xls_bytes), Raises("TypeError"),
                  ConvertResult(Raises("TypeError"), chat_id))

\* lines 290-293: the converter was not imported
ConverterUnavailable ==
  /\ pc = "convert"
  /\ ~converter
  /\ Outcome([k |-> "reply", v |-> SendMessage(chat_id, TEXT_NO_CONVERTER)], "upload")
  /\ UNCHANGED <<converter_vars, runs, update, token, http, calls, invoked, stage, contactLog, converter,
                 text_handler>>

\* lines 295-301
Convert ==
  /\ converter
  /\ \E o \in ConvertOutcomes :
       PipelineCall("convert", "upload", Call("convert", xls_bytes), o,
                    ConvertResult(o, chat_id))

\* lines 303-317
Upload ==
  \E o \in UploadOutcomes :
    PipelineCall("upload", "return", Call("sendDocument", upload_name), o,
                 UploadResult(o, chat_id))

\* ContactMessage composing the acknowledgement without the append of line 326
ContactMessage_SkipsPersist ==
  /\ pc = "contact"
  /\ invoked' = Append(invoked, "contact")
  /\ Outcome([k |-> IF ContactAccepted(message) THEN "next" ELSE "none", v |-> None_],
             IF ContactAccepted(message) THEN "acknowledge" ELSE NextHandler("contact"))
  /\ UNCHANGED <<converter_vars, runs, update, token, http, calls, stage, contactLog, converter, text_handler>>

\* _handle_contact_message, lines 174-182
ContactMessage ==
  /\ pc = "contact"
  /\ invoked' = Append(invoked, "contact")
  /\ Outcome([k |-> IF ContactAccepted(message) THEN "next" ELSE "none", v |-> None_],
             IF ContactAccepted(message) THEN "persist" ELSE NextHandler("contact"))
  /\ UNCHANGED <<converter_vars, runs, update, token, http, calls, stage, contactLog, converter, text_handler>>

\* PersistContact with the failure of the write caught and logged
PersistContact_Swallows ==
  /\ pc = "persist"
  /\ \E o \in PersistOutcomes :
       /\ stage' = [stage EXCEPT !["persist"] = o]
       /\ contactLog' = IF o.k = "exc" THEN contactLog
                        ELSE Append(contactLog, prepare_contact_payload(chat_id, message))
       /\ Outcome([k |-> "next", v |-> None_], "acknowledge")
  /\ calls' = Append(calls, Call("persist", prepare_contact_payload(chat_id, message)))
  /\ UNCHANGED <<converter_vars, runs, update, token, http, invoked, converter, text_handler>>

\* PersistContact opening the log for writing ("w") instead of appending ("a")
PersistContact_Overwrites ==
  /\ pc = "persist"
  /\ \E o \in PersistOutcomes :
       /\ stage' = [stage EXCEPT !["persist"] = o]
       /\ contactLog' = IF o.k = "exc" THEN contactLog
                        ELSE <<prepare_contact_payload(chat_id, message)>>
       /\ Outcome([k |-> IF o.k = "exc" THEN "raise" ELSE "next", v |-> "OSError"],
                  "acknowledge")
  /\ calls' = Append(calls, Call("persist", prepare_contact_payload(chat_id, message)))
  /\ UNCHANGED <<converter_vars, runs, update, token, http, invoked, converter, text_handler>>

\* _create_contact_acknowledgement lines 322-326 and _persist_contact_data: the
\* record is appended, or the failure of mkdir or open leaves the handler
PersistContact ==
  /\ pc = "persist"
  /\ \E o \in PersistOutcomes :
       /\ stage' = [stage EXCEPT !["persist"] = o]
       /\ contactLog' = IF o.k = "exc" THEN contactLog
                        ELSE Append(contactLog, prepare_contact_payload(chat_id, message))
       /\ Outcome([k |-> IF o.k = "exc" THEN "raise" ELSE "next", v |-> "OSError"],
                  "acknowledge")
  /\ calls' = Append(calls, Call("persist", prepare_contact_payload(chat_id, message)))
  /\ UNCHANGED <<converter_vars, runs, update, token, http, invoked, converter, text_handler>>

\* Acknowledge sending the acknowledgement with a request of its own
Acknowledge_SendsByRequest ==
  /\ pc = "acknowledge"
  /\ calls' = Append(calls, Call("sendMessage", chat_id))
  /\ Outcome(Acknowledgement(text_handler, chat_id, message.contact), "return")
  /\ UNCHANGED <<converter_vars, runs, update, token, http, invoked, stage, contactLog, converter,
                 text_handler>>

\* _create_contact_acknowledgement, lines 327-357
Acknowledge ==
  /\ pc = "acknowledge"
  /\ Outcome(Acknowledgement(text_handler, chat_id, message.contact), "return")
  /\ UNCHANGED <<converter_vars, runs, update, token, http, calls, invoked, stage, contactLog, converter,
                 text_handler>>

\* _handle_text_message and handle_update lines 154-158
TextMessage ==
  /\ pc = "text"
  /\ invoked' = Append(invoked, "text")
  /\ LET r == handle_text_message(text_handler, message)
     IN /\ hres' = Append(hres, r)
        /\ response' = IF r = None_ THEN Status("ok") ELSE r
  /\ pc' = NextHandler("text")
  /\ UNCHANGED <<converter_vars, runs, update, token, exc, http, calls, stage, contactLog, converter,
                 text_handler>>

\* the request is over: its locals are gone
RequestEnds ==
  /\ pc' = "idle"
  /\ update' = None_
  /\ token' = Missing
  /\ response' = None_
  /\ exc' = "none"
  /\ calls' = <<>>
  /\ invoked' = <<>>
  /\ hres' = <<>>
  /\ stage' = [s \in Stages |-> NotCalled]
  /\ UNCHANGED <<converter_vars, runs, contactLog, converter, text_handler>>

\* main.py line 18: the payload is serialized and answered with 200
Return ==
  /\ pc = "return"
  /\ http' = 200
  /\ RequestEnds

\* an exception that leaves telegram_webhook is answered by Flask with 500
Propagate ==
  /\ pc = "raised"
  /\ http' = 500
  /\ RequestEnds

Next ==
  \/ Receive
  \/ HandleUpdate
  \/ DocumentMessage
  \/ Notify
  \/ GetFile
  \/ Download
  \/ ConverterUnavailable
  \/ Convert
  \/ Upload
  \/ ContactMessage
  \/ PersistContact
  \/ Acknowledge
  \/ TextMessage
  \/ Return
  \/ Propagate

Spec == Init /\ [][Next]_vars

(***************************************************************************)
(* The webhook serving a run of requests whose contact events fill the log *)
(* line after line: the same handlers, fed a few updates of every kind.    *)
(***************************************************************************)
\* the contact log stops accepting requests once it holds this many lines
MaxContacts == 3

\* one update of each kind: not a mapping, no message, a command, a document
\* beside a contact, a contact, a contact beside a document of another
\* format, a contact in a chat without an id
LogUpdates ==
  {PyList,
   Update(Missing),
   Update(Message(Chat(PyInt(7)), PyStr(<<"/", "s", "t", "a", "r", "t">>), Missing,
                  Missing, Missing)),
   Update(Message(Chat(PyInt(7)), Missing, ContactAnn,
                  Document(PyStr(<<"F">>), Missing, XlsMime, Missing), Missing)),
   Update(Message(Chat(PyInt(7)), Missing, ContactAnn, Missing, PyInt(5))),
   Update(Message(Chat(PyStr(<<"@", "c">>)), Missing, ContactAnn,
                  Document(PyStr(<<"F">>), PyStr(<<"r", ".", "d", "o", "c", "x">>),
                           PyStr(<<"text/plain">>), Missing),
                  Missing)),
   Update(Message(Chat(Missing), Missing, ContactAnn, Missing, Missing))}

\* main.py line 16: a request arrives and its body is decoded
ReceiveLog ==
  /\ pc = "idle"
  /\ Len(contactLog) < MaxContacts
  /\ \E u \in LogUpdates : update' = u
  /\ pc' = "handle_update"
  /\ http' = 0
  /\ UNCHANGED <<converter_vars, runs, token, response, exc, calls, invoked, hres, stage, contactLog,
                 converter, text_handler>>

NextLog ==
  \/ ReceiveLog
  \/ HandleUpdate
  \/ DocumentMessage
  \/ Notify
  \/ GetFile
  \/ Download
  \/ ConverterUnavailable
  \/ Convert
  \/ Upload
  \/ ContactMessage
  \/ PersistContact
  \/ Acknowledge
  \/ TextMessage
  \/ Return
  \/ Propagate

SpecLog == Init /\ [][NextLog]_vars

(***************************************************************************)
(* The webhook receiving contacts of every shape: names and phone present, *)
(* absent, not a str, empty, blank or padded.                              *)
(***************************************************************************)
LabelContacts ==
  Contacts \cup
  {Contact(PyStr(<<" ", "A", "n", "n", " ">>), PyStr(<<"L", "e", "e">>), PyStr(<<"+", "1">>)),
   Contact(Missing, PyStr(<<" ", "L", "e", "e">>), Missing),
   Contact(PyStr(<<"A", " ", "B">>), PyStr(<<>>), PyStr(<<"+", "1">>)),
   Contact(Missing, Missing, Missing),
   Contact(Missing, Missing, PyStr(<<" ", "+", "1", " ", "2">>)),
   Contact(PyStr(<<>>), PyStr(<<" ">>), PyStr(<<" ", " ">>)),
   Contact(None_, PyInt(1), PyInt(5))}

ContactUpdates ==
  {Update(Message(c, Missing, k, Missing, Missing)) :
     c \in {Chat(Missing), Chat(PyInt(7))}, k \in LabelContacts}

\* main.py line 16: a request arrives and its body is decoded
ReceiveContact ==
  /\ pc = "idle"
  /\ Len(contactLog) < MaxLogLines
  /\ \E u \in ContactUpdates : update' = u
  /\ pc' = "handle_update"
  /\ http' = 0
  /\ UNCHANGED <<converter_vars, runs, token, response, exc, calls, invoked, hres, stage, contactLog,
                 converter, text_handler>>

\* the steps a request without a document can take
NextContact ==
  \/ ReceiveContact
  \/ HandleUpdate
  \/ DocumentMessage
  \/ ContactMessage
  \/ PersistContact
  \/ Acknowledge
  \/ TextMessage
  \/ Return
  \/ Propagate

SpecContact == Init /\ [][NextContact]_vars

(***************************************************************************)
(* The webhook built from a texts file whose acknowledgement template is   *)
(* well formed, empty, or fails to render in each way str.format can fail. *)
(***************************************************************************)
TemplateFile(template) ==
  [t |-> "map", greeting_text |-> Missing, authorize_button_text |-> Missing,
   contact_saved_template |-> template]

Templates ==
  {PyStr(<<Lit("Saved: "), Field("contact_label")>>),
   PyStr(<<>>),
   PyStr(<<Lit("Saved "), Field("name")>>),
   PyStr(<<Lit("Saved "), IndexField>>),
   PyStr(<<Field("contact_label"), BadBrace>>),
   PyStr(<<Lit("Saved "), AttrField("contact_label")>>)}

TemplateFiles == {TemplateFile(template) : template \in Templates}

InitTemplate ==
  /\ ConverterInit
  /\ RunsInit
  /\ pc = "idle"
  /\ update = None_
  /\ token = Missing
  /\ response = None_
  /\ exc = "none"
  /\ http = 0
  /\ calls = <<>>
  /\ invoked = <<>>
  /\ hres = <<>>
  /\ stage = [s \in Stages |-> NotCalled]
  /\ contactLog = <<>>
  /\ converter \in BOOLEAN
  /\ text_handler \in {TextMessageHandlerInit(f) : f \in TemplateFiles}

SpecTemplate == InitTemplate /\ [][NextContact]_vars

(***************************************************************************)
(* The webhook built from a texts file of any kind and receiving text      *)
(* messages.                                                               *)
(***************************************************************************)
\* what texts.json can be: absent, not openable, not JSON, not UTF-8, JSON
\* that is not an object, an object with both texts, with a text that is
\* not a str, with no text
TextsFile(greeting_text, authorize_button_text) ==
  [t |-> "map", greeting_text |-> greeting_text,
   authorize_button_text |-> authorize_button_text, contact_saved_template |-> Missing]

GreetingFiles ==
  {[t |-> "absent"], [t |-> "unreadable"], [t |-> "invalid"], [t |-> "undecodable"],
   PyList,
   TextsFile(PyStr(<<"Welcome">>), PyStr(<<"Share contact">>)),
   TextsFile(PyInt(1), PyStr(<<"Share contact">>)),
   TextsFile(PyStr(<<"Welcome">>), None_),
   TextsFile(Missing, Missing)}

\* load_texts lines 63-69: json.load of a file that is not UTF-8 raises
\* UnicodeDecodeError, which is neither an OSError nor a JSONDecodeError
load_texts_raises(file) == file.t = "undecodable"

\* TelegramWebhookHandler(): the text handler, None_ when load_texts raised
text_handler_of(file) ==
  IF load_texts_raises(file) THEN None_ ELSE TextMessageHandlerInit(file)

TextMessages ==
  Texts \cup
  {PyStr(<<>>),
   PyStr(<<"\t", "/", "S", "t", "a", "r", "t", "\n">>),
   PyStr(<<"/", "s", "t", "a", "r", "t", "x">>),
   PyStr(<<"x", " ", "/", "s", "t", "a", "r", "t">>)}

TextUpdates ==
  {Update(Message(c, x, Missing, Missing, Missing)) :
     c \in {Chat(Missing), Chat(PyInt(7)), Chat(PyStr(<<"@", "c">>))}, x \in TextMessages}

\* main.py lines 8-9: the application is built, or its construction raises
InitText ==
  /\ ConverterInit
  /\ RunsInit
  /\ text_handler \in {text_handler_of(f) : f \in GreetingFiles}
  /\ pc = IF text_handler = None_ THEN "failed" ELSE "idle"
  /\ exc = IF text_handler = None_ THEN "UnicodeDecodeError" ELSE "none"
  /\ update = None_
  /\ token = Missing
  /\ response = None_
  /\ http = 0
  /\ calls = <<>>
  /\ invoked = <<>>
  /\ hres = <<>>
  /\ stage = [s \in Stages |-> NotCalled]
  /\ contactLog = <<>>
  /\ converter \in BOOLEAN

\* main.py line 16: a request arrives and its body is decoded
ReceiveText ==
  /\ pc = "idle"
  /\ \E u \in TextUpdates : update' = u
  /\ pc' = "handle_update"
  /\ http' = 0
  /\ UNCHANGED <<converter_vars, runs, token, response, exc, calls, invoked, hres, stage, contactLog,
                 converter, text_handler>>

\* the steps a request that holds only a text can take
NextText ==
  \/ ReceiveText
  \/ HandleUpdate
  \/ DocumentMessage
  \/ ContactMessage
  \/ TextMessage
  \/ Return

SpecText == InitText /\ [][NextText]_vars

(***************************************************************************)
(* The converter called on its own, call after call.                       *)
(***************************************************************************)
NextConverter ==
  \/ CallConverter
  \/ ResolveSoffice
  \/ MakeTemporaryDirectory
  \/ WriteInput
  \/ RunSoffice
  \/ CheckOutput
  \/ ReadOutput
  \/ ExitBlock
  \/ ConverterEnds

SpecConverter == Init /\ [][NextConverter]_vars

(***************************************************************************)
(* Two requests with documents, their steps interleaved in every order.    *)
(***************************************************************************)
NextRuns ==
  \/ StartRun
  \/ RunNotify
  \/ RunGetFile
  \/ RunDownload
  \/ RunConverterUnavailable
  \/ RunConvert
  \/ RunUpload
  \/ RunEnds

SpecRuns == Init /\ [][NextRuns]_vars

(***************************************************************************)
(* Observations the properties are stated with.                            *)
(***************************************************************************)
\* handle_update was entered with a message and is past its dispatch
InHandlers == pc \notin {"idle", "handle_update"} /\ Dispatch(update).k = "next"

\* the document handler has made its checks of lines 204-254
PastPrecheck == InHandlers /\ pc # "document"

CallNames == [i \in 1..Len(calls) |-> calls[i].call]

NetworkCallNames == {"sendMessage", "getFile", "download", "sendDocument"}

NoNetworkCall == \A i \in 1..Len(calls) : calls[i].call \notin NetworkCallNames

NoLogWrite == \A i \in 1..Len(calls) : calls[i].call # "persist"

IsPrefix(a, b) == Len(a) <= Len(b) /\ \A i \in 1..Len(a) : a[i] = b[i]

HandlerOrder == <<"document", "contact", "text">>

PipelineOrder == <<"sendMessage", "getFile", "download", "convert", "sendDocument">>

IsSendMessage(r) == "method" \in DOMAIN r /\ r.method = "sendMessage"

\* the getFile call did not yield a file path: it raised, answered non-2xx,
\* or its body is not an object whose "result" is an object holding a str file_path
LocateFailed ==
  LET o == stage["getFile"] IN
  /\ o # NotCalled
  /\ \/ o.k = "exc"
     \/ o.status >= 400
     \/ ~IsMapping(o.body)
     \/ ~IsMapping(Get(o.body.result))
     \/ ~IsStr(Get(o.body.result.file_path))

DownloadFailed ==
  LET o == stage["download"] IN o # NotCalled /\ (o.k = "exc" \/ o.status >= 400)

ConvertFailed == stage["convert"].k = "exc"

UploadFailed ==
  LET o == stage["upload"] IN o # NotCalled /\ (o.k = "exc" \/ o.status >= 400)

declared_size == Get(document.file_size)

(***************************************************************************)
(* C1 (refuted by the code): for every input and every outcome of its      *)
(* collaborators handle_update returns a payload and never raises, so the  *)
(* webhook caller always receives HTTP success.                            *)
(***************************************************************************)
C1_AlwaysHttpSuccess == pc # "raised" /\ http \in {0, 200}

(***************************************************************************)
(* C2: an update that is not a mapping is answered {"status": "ignored"}:  *)
(* nothing is raised, no handler runs, no network call is made and nothing *)
(* is written to the contact log.                                          *)
(***************************************************************************)
C2_NonMappingIgnored ==
  (pc \notin {"idle", "handle_update"} /\ ~IsMapping(update)) =>
    /\ pc = "return"
    /\ response = Status("ignored")
    /\ exc = "none"
    /\ invoked = <<>>
    /\ calls = <<>>
    /\ stage["persist"] = NotCalled

C2_Witness == pc = "return" /\ update = PyList /\ response = Status("ignored")

(***************************************************************************)
(* C3: with a message, the handlers are tried in the order document,       *)
(* contact, text; a handler is invoked only after every earlier one        *)
(* returned None; the response is the first non-empty result, and          *)
(* {"status": "ok"} when all three are empty or there is no message.       *)
(***************************************************************************)
C3_HandlerOrder ==
  /\ IsPrefix(invoked, HandlerOrder)
  /\ Len(hres) <= Len(invoked)
  /\ \A i \in 1..Len(invoked) - 1 : Len(hres) >= i /\ hres[i] = None_
  /\ (pc = "return" /\ Dispatch(update).k = "next") =>
       /\ invoked # <<>>
       /\ Len(hres) = Len(invoked)
       /\ IF hres[Len(hres)] # None_ THEN response = hres[Len(hres)]
          ELSE invoked = HandlerOrder /\ response = Status("ok")
  /\ (pc = "return" /\ IsMapping(update) /\ Dispatch(update).k # "next") =>
       invoked = <<>> /\ response = Status("ok")

C3_Witness ==
  /\ pc = "return"
  /\ InHandlers
  /\ invoked = <<"document", "contact">>
  /\ hres[1] = None_
  /\ IsSendMessage(response)
  /\ handle_text_message(text_handler, message) # None_

(***************************************************************************)
(* C4 as stated (refuted): for any message holding both a document and a   *)
(* contact, no contact record is appended and no contact acknowledgement   *)
(* is composed.                                                            *)
(***************************************************************************)
C4_AnyDocumentBeatsContact ==
  (InHandlers /\ IsMapping(Get(message.document)) /\ IsMapping(Get(message.contact))) =>
    /\ pc \notin {"persist", "acknowledge"}
    /\ stage["persist"] = NotCalled

(***************************************************************************)
(* C4 amended: for any message holding a contact and a document that the   *)
(* document handler takes for conversion (valid chat id, str file_id,      *)
(* supported MIME type or extension), the document handler answers and the *)
(* contact handler is not invoked: no record is appended, no               *)
(* acknowledgement is composed.                                            *)
(***************************************************************************)
C4_AcceptedDocumentBeatsContact ==
  (PastPrecheck /\ DocumentAccepted(message) /\ IsMapping(Get(message.contact))) =>
    /\ invoked = <<"document">>
    /\ pc \notin {"contact", "persist", "acknowledge", "text"}
    /\ NoLogWrite
    /\ stage["persist"] = NotCalled
    /\ pc = "return" => (hres = <<response>> /\ response # None_)

C4_Witness ==
  /\ pc = "return"
  /\ InHandlers
  /\ DocumentAccepted(message)
  /\ IsMapping(Get(message.contact))
  /\ response = Status("sent")

(***************************************************************************)
(* C5: in one pipeline run notify, getFile, download, convert and          *)
(* sendDocument are each called at most once and only in that order, and   *)
(* once getFile, download or convert fails no later stage is called; when  *)
(* the download fails, convert and sendDocument are called zero times.     *)
(***************************************************************************)
C5_StagesInOrder ==
  /\ IsPrefix(CallNames, PipelineOrder) \/ CallNames = <<"persist">>
  /\ LocateFailed =>
       /\ \A i \in 1..Len(calls) : calls[i].call \notin {"download", "convert", "sendDocument"}
       /\ stage["download"] = NotCalled
       /\ stage["convert"] = NotCalled
       /\ stage["upload"] = NotCalled
  /\ DownloadFailed =>
       /\ \A i \in 1..Len(calls) : calls[i].call \notin {"convert", "sendDocument"}
       /\ stage["convert"] = NotCalled
       /\ stage["upload"] = NotCalled
  /\ ConvertFailed =>
       /\ \A i \in 1..Len(calls) : calls[i].call # "sendDocument"
       /\ stage["upload"] = NotCalled

C5_Witness ==
  /\ pc = "return"
  /\ DownloadFailed
  /\ CallNames = <<"sendMessage", "getFile", "download">>

(***************************************************************************)
(* C6: an accepted document whose declared file_size is an integer above   *)
(* 1,048,576 is answered "file too large" with no network call and without *)
(* the token being read; a declared size of exactly 1,048,576 is not       *)
(* rejected by this check: the token is read, and with a token the run     *)
(* goes on to the notification.                                            *)
(***************************************************************************)
C6_DeclaredSizeCeiling ==
  /\ (PastPrecheck /\ DocumentAccepted(message)
        /\ IsInt(declared_size) /\ declared_size.n > 1048576) =>
       /\ pc = "return"
       /\ response = SendMessage(chat_id, TEXT_TOO_LARGE)
       /\ calls = <<>>
       /\ token = Missing
  /\ (PastPrecheck /\ DocumentAccepted(message) /\ declared_size = PyInt(1048576)) =>
       /\ token # Missing
       /\ response = SendMessage(chat_id, TEXT_TOO_LARGE) => stage["download"] # NotCalled
       /\ Truthy(token) => (pc = "notify" \/ (calls # <<>> /\ calls[1].call = "sendMessage"))

C6_Witness ==
  /\ pc = "return"
  /\ InHandlers
  /\ DocumentAccepted(message)
  /\ declared_size = PyInt(1048577)
  /\ response = SendMessage(chat_id, TEXT_TOO_LARGE)
  /\ calls = <<>>

(***************************************************************************)
(* C7: an accepted document that passes the declared-size check, with the  *)
(* token unset or empty, is answered "service not configured" with no      *)
(* network call.                                                           *)
(***************************************************************************)
C7_NoTokenNoNetwork ==
  (PastPrecheck /\ DocumentAccepted(message) /\ ~DeclaredTooLarge(document)
     /\ token \in {None_, PyStr(<<>>)}) =>
    /\ pc = "return"
    /\ response = SendMessage(chat_id, TEXT_NO_TOKEN)
    /\ calls = <<>>
    /\ \A st \in Stages : stage[st] = NotCalled

C7_Witness ==
  /\ pc = "return"
  /\ InHandlers
  /\ token = PyStr(<<>>)
  /\ response = SendMessage(chat_id, TEXT_NO_TOKEN)

(***************************************************************************)
(* C8: when the downloaded payload is longer than 1,048,576 bytes,         *)
(* whatever size was declared, the run answers "file too large" and        *)
(* neither the converter nor sendDocument is called.                       *)
(***************************************************************************)
C8_DownloadedSizeCeiling ==
  (stage["download"].k = "resp" /\ stage["download"].status = 200
     /\ stage["download"].body.len > 1048576) =>
    /\ pc = "return"
    /\ response = SendMessage(chat_id, TEXT_TOO_LARGE)
    /\ \A i \in 1..Len(calls) : calls[i].call \notin {"convert", "sendDocument"}
    /\ stage["convert"] = NotCalled
    /\ stage["upload"] = NotCalled

C8_Witness ==
  /\ pc = "return"
  /\ InHandlers
  /\ stage["download"] = Resp(200, Bytes(MAX_BYTES + 1))
  /\ declared_size = PyInt(MAX_BYTES)
  /\ response = SendMessage(chat_id, TEXT_TOO_LARGE)

(***************************************************************************)
(* What a run that sent the notification must be doing, computed from the  *)
(* outcomes of the later stages only.                                      *)
(***************************************************************************)
\* the calls made after the notification, from the other stages' outcomes
CallsAfterNotify ==
  SelectSeq(<<"getFile", "download", "convert", "upload">>,
            LAMBDA st : stage[st] # NotCalled)

\* the stage a run is at, from the outcomes of the stages after the notification
PlaceAfterNotify ==
  CASE stage["getFile"] = NotCalled -> "getFile"
    [] LocateFailed -> "over"
    [] stage["download"] = NotCalled -> "download"
    [] DownloadFailed \/ stage["download"].body.len > MAX_BYTES -> "over"
    [] stage["convert"] = NotCalled -> IF converter THEN "convert" ELSE "no converter"
    [] ConvertFailed -> "over"
    [] stage["upload"] = NotCalled -> "upload"
    [] OTHER -> "over"

\* the payload of a run that is over, from the same outcomes
PayloadAfterNotify ==
  CASE LocateFailed ->
         IF CallFailed(stage["getFile"]) \/ ~IsMapping(stage["getFile"].body)
         THEN SendMessage(chat_id, TEXT_GETFILE_FAILED)
         ELSE SendMessage(chat_id, TEXT_BAD_GETFILE_RESPONSE)
    [] DownloadFailed -> SendMessage(chat_id, TEXT_DOWNLOAD_FAILED)
    [] stage["download"].body.len > MAX_BYTES -> SendMessage(chat_id, TEXT_TOO_LARGE)
    [] ~converter -> SendMessage(chat_id, TEXT_NO_CONVERTER)
    [] ConvertFailed -> SendMessage(chat_id, TEXT_CONVERSION_FAILED)
    [] UploadFailed -> SendMessage(chat_id, TEXT_UPLOAD_FAILED)
    [] OTHER -> Status("sent")

(***************************************************************************)
(* C9: the outcome of the "processing started" notification is not used    *)
(* for control flow: once it was sent, whatever it came to, the run is at  *)
(* the stage that the outcomes of getFile, download, convert and           *)
(* sendDocument alone determine, has made the calls they determine and     *)
(* returns the payload they determine.                                     *)
(***************************************************************************)
C9_NotifyNotLoadBearing ==
  stage["notify"] # NotCalled =>
    /\ Len(calls) = 1 + Len(CallsAfterNotify)
    /\ CASE PlaceAfterNotify = "over" -> pc \in {"return", "raised"}
         [] PlaceAfterNotify = "no converter" -> pc \in {"convert", "return"}
         [] OTHER -> pc = PlaceAfterNotify /\ response = None_ /\ exc = "none"
    /\ pc = "return" => response = PayloadAfterNotify

C9_Witness ==
  /\ pc = "return"
  /\ stage["notify"] = Raises("Timeout")
  /\ response = Status("sent")

(***************************************************************************)
(* C10 (refuted by the code): a failure of getFile, download or            *)
(* sendDocument - the call raising, a non-2xx status or a malformed body,  *)
(* a getFile "result" that is not an object included - ends the run with a *)
(* sendMessage payload and never leaves the document handler as an         *)
(* exception.                                                              *)
(***************************************************************************)
C10_StageFailureRecovered ==
  (LocateFailed \/ DownloadFailed \/ UploadFailed) =>
    /\ pc = "return"
    /\ exc = "none"
    /\ IsSendMessage(response)


\* the getFile call itself failed: it raised, answered a 4xx or 5xx status, or
\* its body is not a JSON object
LocateCallFailed ==
  LET o == stage["getFile"] IN
  o # NotCalled /\ (o.k = "exc" \/ o.status >= 400 \/ ~IsMapping(o.body))

\* getFile answered an object whose "result" is absent, empty or an object
\* that holds no str file_path
LocateNoFilePath ==
  LET o == stage["getFile"] IN
  /\ o # NotCalled
  /\ ~LocateCallFailed
  /\ \/ ~Truthy(Get(o.body.result))
     \/ /\ IsMapping(Get(o.body.result))
        /\ ~IsStr(Get(o.body.result.file_path))

DownloadNotAttempted ==
  /\ stage["download"] = NotCalled
  /\ \A i \in 1..Len(calls) : calls[i].call # "download"

LastDot(name) ==
  LET dots == {i \in 1..Len(name) : name[i] = "."}
  IN IF dots = {} THEN 0 ELSE CHOOSE i \in dots : \A j \in dots : j <= i

\* a name with its extension replaced by that of the target format
SwapExtension(name) ==
  (IF LastDot(name) = 0 THEN name ELSE SubSeq(name, 1, LastDot(name) - 1))
    \o <<".", "x", "l", "s", "x">>

\* the file name the sendDocument call of this run was made with
SentFileName == calls[Len(calls)].arg

(***************************************************************************)
(* C12 (refuted by the code): the converted file is uploaded under the     *)
(* original name with its extension swapped to that of the target format   *)
(* (r.XLS is sent as r.xlsx), or under the generic default name when the   *)
(* original name is absent.                                                *)
(***************************************************************************)
C12_UploadNameSwapped ==
  stage["upload"] # NotCalled =>
    /\ calls[Len(calls)].call = "sendDocument"
    /\ SentFileName =
         (IF IsStr(Get(document.file_name))
          THEN PyStr(SwapExtension(document.file_name.s))
          ELSE PyStr(<<"converted.xlsx">>))


\* getFile, download, convert and sendDocument were each called in this run
\* and succeeded, the downloaded payload being within the ceiling
AllStagesSucceeded ==
  /\ stage["getFile"] # NotCalled /\ ~LocateFailed
  /\ stage["download"] # NotCalled /\ ~DownloadFailed
  /\ stage["download"].body.len <= 1048576
  /\ stage["convert"].k = "ret"
  /\ stage["upload"] # NotCalled /\ ~UploadFailed

\* the document handler took the document and its run is over
PipelineRunOver ==
  PastPrecheck /\ DocumentAccepted(message) /\ pc \in {"return", "raised"}

(***************************************************************************)
(* C13 (refuted by the code): a run of the pipeline returns                *)
(* {"status": "sent"} exactly when getFile, download, convert and          *)
(* sendDocument were each called and succeeded with the downloaded size    *)
(* within the ceiling; every other run for an accepted document ends with  *)
(* a sendMessage payload, and the "sent" result is not a sendMessage.      *)
(***************************************************************************)
C13_SentIffAllSucceeded ==
  PipelineRunOver =>
    /\ pc = "return"
    /\ response = Status("sent") <=> AllStagesSucceeded
    /\ response # Status("sent") => IsSendMessage(response)
    /\ response = Status("sent") => ~IsSendMessage(response)


\* the outcomes of a converter call that raises
ConvertRaising == {o \in ConvertOutcomes : o.k = "exc"}

UploadNotInvoked ==
  /\ stage["upload"] = NotCalled
  /\ \A i \in 1..Len(calls) : calls[i].call # "sendDocument"

(***************************************************************************)
(* C14: when the converter raises, whatever it raises, the run returns the *)
(* fixed "conversion failed" message - two runs that differ only in the    *)
(* exception raised return identical payloads, and the text holds nothing  *)
(* of the exception - and sendDocument is not called.                      *)
(***************************************************************************)
C14_ConversionFailureOpaque ==
  /\ ConvertFailed =>
       /\ pc = "return"
       /\ response = SendMessage(chat_id, TEXT_CONVERSION_FAILED)
       /\ UploadNotInvoked
  /\ (pc = "convert" /\ converter) =>
       \A o1, o2 \in ConvertRaising :
         /\ ConvertResult(o1, chat_id) = ConvertResult(o2, chat_id)
         /\ ConvertResult(o1, chat_id).k = "reply"
         /\ \A i \in 1..Len(ConvertResult(o1, chat_id).v.text) :
              ConvertResult(o1, chat_id).v.text[i] # o1.e

C14_Witness ==
  /\ pc = "return"
  /\ stage["convert"] = Raises("RuntimeError: exit code 1")
  /\ response = SendMessage(chat_id, TEXT_CONVERSION_FAILED)
  /\ UploadNotInvoked


\* the run got through getFile and the download, the payload within the ceiling
Downloaded ==
  /\ stage["download"] # NotCalled
  /\ ~DownloadFailed
  /\ stage["download"].body.len <= 1048576

(***************************************************************************)
(* C15: when the converter could not be imported, a run that got through   *)
(* getFile and the download returns the "converter is not available"       *)
(* message, and neither the converter nor sendDocument is called.          *)
(***************************************************************************)
C15_ConverterUnavailable ==
  (~converter /\ Downloaded) =>
    /\ pc \in {"convert", "return"}
    /\ pc = "return" => response = SendMessage(chat_id, TEXT_NO_CONVERTER)
    /\ stage["convert"] = NotCalled
    /\ \A i \in 1..Len(calls) : calls[i].call # "convert"
    /\ UploadNotInvoked

C15_Witness ==
  /\ pc = "return"
  /\ ~converter
  /\ Downloaded
  /\ CallNames = <<"sendMessage", "getFile", "download">>
  /\ response = SendMessage(chat_id, TEXT_NO_CONVERTER)


\* the message holds a document of the shape of the data model - a str file
\* id, a MIME type that is a str or absent - in a chat with a valid id
WellFormedDocument ==
  /\ IsMapping(Get(message.document))
  /\ IsMapping(Get(message.chat))
  /\ ValidChatId(chat_id)
  /\ IsStr(Get(document.file_id))
  /\ (IsStr(Get(document.mime_type)) \/ Get(document.mime_type) = Missing)

\* the document handler returned None: the document was not taken
DocumentDeclined == Len(hres) >= 1 /\ hres[1] = None_

MimeIsLegacySpreadsheet == Get(document.mime_type) = PyStr(<<"application/vnd.ms-excel">>)

NameHasLegacyExtension ==
  /\ IsStr(Get(document.file_name))
  /\ \E ext \in {<<".", "x", "l", "s">>, <<".", "x", "l", "x">>} :
       EndsWith(Lower(document.file_name.s), ext)

NameIs(name) == Get(document.file_name) = PyStr(name)

ContactAcknowledged ==
  /\ pc = "return"
  /\ invoked = <<"document", "contact">>
  /\ Len(hres) = 2
  /\ hres[2] # None_

\* the record of the contact event of this update
ContactRecord == prepare_contact_payload(chat_id, message)

PersistCalls == SelectSeq(calls, LAMBDA c : c.call = "persist")

(***************************************************************************)
(* C17: when the contact handler composes and returns its acknowledgement, *)
(* exactly one record of this event has been appended to the contact log,  *)
(* as its last line, before the text is composed; no acknowledgement is    *)
(* returned for an event whose record was not written.                     *)
(***************************************************************************)
C17_PersistBeforeAcknowledgement ==
  (pc = "acknowledge" \/ ContactAcknowledged) =>
    /\ stage["persist"] = Returns(None_)
    /\ PersistCalls = <<Call("persist", ContactRecord)>>
    /\ contactLog # <<>>
    /\ contactLog[Len(contactLog)] = ContactRecord
    /\ pc = "acknowledge" => (response = None_ /\ Len(hres) = 1)

C17_Witness ==
  /\ ContactAcknowledged
  /\ IsSendMessage(response)
  /\ stage["persist"] = Returns(None_)
  /\ contactLog = <<ContactRecord>>

(***************************************************************************)
(* C18: when the append of the contact record fails - mkdir or open        *)
(* raises - the exception is not caught: it leaves the contact handler and *)
(* handle_update after the one attempt, and no acknowledgement is composed *)
(* or returned.                                                            *)
(***************************************************************************)
C18_PersistFailurePropagates ==
  stage["persist"].k = "exc" =>
    /\ pc = "raised"
    /\ exc = "OSError"
    /\ response = None_
    /\ invoked = <<"document", "contact">>
    /\ hres = <<None_>>
    /\ PersistCalls = <<Call("persist", ContactRecord)>>

C18_Witness ==
  /\ pc = "raised"
  /\ stage["persist"] = Raises("OSError: open")
  /\ exc = "OSError"
  /\ response = None_


\* this step is the append of the contact path, and the write went through
ContactAppended == pc = "persist" /\ stage'["persist"].k = "ret"

\* what one step may do to the contact log
LogStep ==
  /\ IsPrefix(contactLog, contactLog')
  /\ IF ContactAppended
     THEN /\ contactLog' = Append(contactLog, ContactRecord)
          /\ stage["persist"] = NotCalled
          /\ invoked = <<"document", "contact">>
     ELSE contactLog' = contactLog
  /\ pc' = "idle" => (stage["persist"].k = "ret" <=> ContactAcknowledged)

(***************************************************************************)
(* C19: over any run of updates the contact log only grows at its end: no  *)
(* step changes, reorders or removes a line it holds; the only step that   *)
(* adds a line is the append of the contact path, made at most once per    *)
(* update, and an update has added its one line exactly when the contact   *)
(* path handled it - a document, a command, an ignored or an empty update  *)
(* adds none.                                                              *)
(***************************************************************************)
C19_LogAppendOnly == [][LogStep]_vars

C19_Witness ==
  /\ ContactAcknowledged
  /\ Len(contactLog) = 2
  /\ contactLog[1] # contactLog[2]
  /\ contactLog[2] = ContactRecord


\* a field of the contact, trimmed; empty when it is absent or not a str
Trimmed(value) == IF IsStr(value) THEN Strip(value.s) ELSE <<>>

\* the label as the data model words it
LabelOf(contact) ==
  LET first == Trimmed(Get(contact.first_name))
      last == Trimmed(Get(contact.last_name))
      phone == Trimmed(Get(contact.phone_number))
  IN CASE first # <<>> /\ last # <<>> -> first \o <<" ">> \o last
       [] first # <<>> /\ last = <<>> -> first
       [] first = <<>> /\ last # <<>> -> last
       [] first = <<>> /\ last = <<>> /\ phone # <<>> -> phone
       [] OTHER -> <<"contact">>

\* the acknowledgement texts the templates of TextsFiles render around a label
AcknowledgementTexts(label) ==
  {<<"Thanks! ">> \o label \o <<" saved for authorization.">>,
   <<"Saved: ">> \o label}

(***************************************************************************)
(* C20: the contact label is a total function of the contact's fields: the *)
(* trimmed non-empty first and last names joined by a space if either is   *)
(* non-empty, otherwise the trimmed phone number if it is non-empty,       *)
(* otherwise the placeholder; names and phone that are absent, not a str,  *)
(* empty or whitespace come to the placeholder.  The acknowledgement       *)
(* returned carries that label.                                            *)
(***************************************************************************)
C20_ContactLabel ==
  /\ pc = "acknowledge" =>
       /\ contact_label(message.contact) = LabelOf(message.contact)
       /\ contact_label(message.contact) # <<>>
       /\ (\A f \in {"first_name", "last_name", "phone_number"} :
            Trimmed(Get(message.contact[f])) = <<>>) =>
              contact_label(message.contact) = <<"contact">>
  /\ ContactAcknowledged =>
       response.text \in AcknowledgementTexts(LabelOf(message.contact))

C20_Witness ==
  /\ ContactAcknowledged
  /\ message.contact =
       Contact(PyStr(<<" ", "A", "n", "n", " ">>), PyStr(<<"L", "e", "e">>), PyStr(<<"+", "1">>))
  /\ response.text = <<"Saved: ", "A", "n", "n", " ", "L", "e", "e">>


\* rendering the configured template fails, or the template is empty
TemplateFails ==
  \/ text_handler.contact_saved_template.s = <<>>
  \/ FormatPieces(text_handler.contact_saved_template.s, <<"x">>).exc # "none"

\* the built-in default template rendered with a label
DefaultAcknowledgement(label) ==
  <<"Thanks! ">> \o label \o <<" saved for authorization.">>

\* the contact path is past its append and is over
ContactPathOver == stage["persist"].k = "ret" /\ pc \in {"return", "raised"}

(***************************************************************************)
(* C21 (refuted by the code): when rendering the configured                *)
(* acknowledgement template fails, or the template is empty, the           *)
(* acknowledgement is rendered from the built-in default template with the *)
(* same label and no exception leaves the handler.                         *)
(***************************************************************************)
C21_TemplateFailureFallsBack ==
  (ContactPathOver /\ TemplateFails) =>
    /\ pc = "return"
    /\ exc = "none"
    /\ response = SendMessage(chat_id, DefaultAcknowledgement(LabelOf(message.contact)))


\* the text handler was given the text of the message: it is a str and the
\* chat has a valid id
TextHandled ==
  /\ pc = "return"
  /\ InHandlers
  /\ invoked = HandlerOrder
  /\ IsStr(Get(message.text))
  /\ IsMapping(Get(message.chat))
  /\ ValidChatId(chat_id)

\* the first run of characters of a text that are not whitespace, lowercased;
\* empty when the text holds none
CommandOf(text) ==
  LET solid == {i \in 1..Len(text) : text[i] \notin Whitespace} IN
  IF solid = {} THEN <<>>
  ELSE LET first == CHOOSE i \in solid : \A j \in solid : i <= j
           last == CHOOSE i \in solid :
                     /\ \A j \in first..i : j \in solid
                     /\ i + 1 \notin solid
       IN Lower(SubSeq(text, first, last))

(***************************************************************************)
(* C22: the text handler returns a sendMessage payload exactly when the    *)
(* first whitespace-delimited token of the text, lowercased, is "/start";  *)
(* an empty or blank text and an unknown token give no result and          *)
(* handle_update then returns {"status": "ok"}, for "/unknown arg" too,    *)
(* without raising.                                                        *)
(***************************************************************************)
C22_TextCommand ==
  TextHandled =>
    /\ exc = "none"
    /\ Len(hres) = 3
    /\ IsSendMessage(hres[3]) <=> CommandOf(message.text.s) = <<"/", "s", "t", "a", "r", "t">>
    /\ ~IsSendMessage(hres[3]) => (hres[3] = None_ /\ response = Status("ok"))
    /\ IsSendMessage(hres[3]) => response = hres[3]
    /\ Strip(message.text.s) = <<>> => response = Status("ok")
    /\ message.text.s = <<"/", "u", "n", "k", "n", "o", "w", "n", " ", "a", "r", "g">> =>
         response = Status("ok")

C22_Witness ==
  /\ TextHandled
  /\ message.text.s = <<"\t", "/", "S", "t", "a", "r", "t", "\n">>
  /\ IsSendMessage(response)

\* the text a texts file gives for a key: its value when the file holds a
\* JSON object with a str under the key, the built-in default otherwise
ExpectedText(file, key) ==
  IF file.t = "map" /\ file[key].t = "str" THEN file[key].s ELSE DEFAULT_TEXTS[key].s

\* the label of the button of a /start reply
ButtonText(reply) == reply.reply_markup.keyboard[1][1].text

(***************************************************************************)
(* C23 (refuted by the code): whatever the texts file is - missing,        *)
(* unreadable, not a JSON object, an object with a key absent or not a     *)
(* str, an object with both texts - the handler is built, and the /start   *)
(* reply's text and button label are the file's greeting_text and          *)
(* authorize_button_text where those are strs and the built-in defaults    *)
(* where they are not.                                                     *)
(***************************************************************************)
C23_TextsOrDefaults ==
  /\ pc # "failed"
  /\ text_handler # None_
  /\ \E f \in GreetingFiles :
       /\ text_handler.greeting_text.s = ExpectedText(f, "greeting_text")
       /\ text_handler.authorize_button_text.s = ExpectedText(f, "authorize_button_text")
  /\ (TextHandled /\ IsSendMessage(response)) =>
       /\ response.text = text_handler.greeting_text.s
       /\ ButtonText(response) = text_handler.authorize_button_text.s


\* the call of the converter is over
ConverterOver == cv_pc = "done"

\* seq holds part as a run of consecutive elements
Contains(seq, part) ==
  \E i \in 0..(Len(seq) - Len(part)) : SubSeq(seq, i + 1, i + Len(part)) = part

(***************************************************************************)
(* C24 (refuted by the code): every failure of the converter - executable  *)
(* not found, executable that cannot be run, non-zero exit, exit 0 without *)
(* an output file, failure to write the input or to read the output - is   *)
(* raised as RuntimeError, and no bytes are returned; for a non-zero exit  *)
(* the message holds "LibreOffice conversion failed" and the stderr of the *)
(* process.                                                                *)
(***************************************************************************)
C24_SingleFailureCondition ==
  ConverterOver =>
    /\ cv_outcome.k \in {"exc", "ret"}
    /\ (cv_outcome.k = "exc" /\ (tmp_dir # 0 \/ cv_outcome.msg = MESSAGE_NOT_FOUND)) =>
         cv_outcome.e = "RuntimeError"
    /\ cv_outcome.k = "ret" => (run_result.k = "ret" /\ cv_outcome.body = Bytes(2))
    /\ run_result.e = "CalledProcessError" =>
         /\ cv_outcome.k = "exc"
         /\ cv_outcome.msg[1] = "LibreOffice conversion failed with exit code "
         /\ Contains(cv_outcome.msg, Strip(Decode(run_result.stderr)))

(***************************************************************************)
(* C25: a call of the converter that created a temporary directory has     *)
(* removed it when the call returns or raises, however the with block was  *)
(* left - success, non-zero exit, no output file, executable that cannot   *)
(* be run, input not written, output not read; the only temporary          *)
(* directory on the disk is that of the call in progress.                  *)
(***************************************************************************)
C25_TemporaryDirectoryRemoved ==
  /\ tmp_dirs \subseteq {tmp_dir}
  /\ cv_pc \in {"idle", "resolve", "mkdtemp", "done"} => tmp_dirs = {}
  /\ cv_pc \in {"write", "run", "exists", "read", "exit"} =>
       (tmp_dir # 0 /\ tmp_dirs = {tmp_dir})

C25_Witness ==
  /\ ConverterOver
  /\ cv_calls = 2
  /\ tmp_dir = 2
  /\ run_result.e = "PermissionError"
  /\ cv_outcome.k = "exc"
  /\ tmp_dirs = {}


\* the message of the update with its document field taken away
WithoutDocument == [message EXCEPT !.document = Missing]

\* the run of handle_update on the message is over
RunOver == InHandlers /\ pc \in {"return", "raised"}

\* what handle_update returns for the message without its document, given
\* that the record was written: the acknowledgement, the reply of the text
\* handler, or {"status": "ok"}
ResponseWithoutDocument ==
  IF ContactAccepted(WithoutDocument)
  THEN Acknowledgement(text_handler, ChatIdOf(WithoutDocument), WithoutDocument.contact).v
  ELSE IF handle_text_message(text_handler, WithoutDocument) # None_
       THEN handle_text_message(text_handler, WithoutDocument)
  ELSE Status("ok")

\* the calls handle_update makes for the message without its document
CallsWithoutDocument ==
  IF ContactAccepted(WithoutDocument)
  THEN <<Call("persist",
              prepare_contact_payload(ChatIdOf(WithoutDocument), WithoutDocument))>>
  ELSE <<>>

(***************************************************************************)
(* C26: when the document handler returns None - the document is of        *)
(* another format, or its file id or MIME type is not a str - it has made  *)
(* no network call and has not read the token, and the run then makes the  *)
(* calls, writes the record and returns the payload that handle_update     *)
(* makes, writes and returns for the same message without its document:    *)
(* the contact path if it holds a contact, else the text path, else "ok".  *)
(***************************************************************************)
C26_DeclinedDocumentIsNoDocument ==
  (InHandlers /\ DocumentDeclined) =>
    /\ NoNetworkCall
    /\ token = Missing
    /\ \A st \in Stages \ {"persist"} : stage[st] = NotCalled
    /\ RunOver =>
         /\ calls = CallsWithoutDocument
         /\ stage["persist"] = NotCalled <=> ~ContactAccepted(WithoutDocument)
         /\ IF stage["persist"].k = "exc" THEN pc = "raised" /\ exc = "OSError"
            ELSE /\ pc = "return"
                 /\ response = ResponseWithoutDocument
         /\ stage["persist"].k = "ret" =>
              contactLog[Len(contactLog)] =
                prepare_contact_payload(ChatIdOf(WithoutDocument), WithoutDocument)

C26_Witness ==
  /\ RunOver
  /\ DocumentDeclined
  /\ IsMapping(Get(message.document))
  /\ ValidChatId(chat_id)
  /\ NameIs(<<"r", ".", "d", "o", "c", "x">>)
  /\ ContactAcknowledged
  /\ response = ResponseWithoutDocument


\* the handler that is running: the last one invoked
Running == invoked[Len(invoked)]

\* one step of a run: what it may add to the calls and to the log, by the
\* handler that takes it
FrameStep ==
  (pc # "idle" /\ pc' # "idle") =>
    /\ calls' # calls =>
         /\ invoked # <<>>
         /\ invoked' = invoked
         /\ \E c \in {calls'[Len(calls')]} :
              /\ calls' = Append(calls, c)
              /\ c.call \in NetworkCallNames \cup {"convert"} =>
                   Running = "document" /\ contactLog' = contactLog
              /\ c.call = "persist" => Running = "contact"
    /\ contactLog' # contactLog =>
         /\ Running = "contact"
         /\ Len(calls') = Len(calls) + 1
         /\ calls'[Len(calls')].call = "persist"
    /\ (Len(hres') = Len(hres) + 1 /\ hres'[Len(hres')] = None_) =>
         /\ calls' = <<>>
         /\ contactLog' = contactLog
    /\ Len(invoked') > Len(invoked) => (calls' = <<>> /\ contactLog' = contactLog)

(***************************************************************************)
(* C27: within one update only one handler has side effects. A network     *)
(* call or a conversion is made only by the document handler and leaves    *)
(* the contact log as it is; the log is written only by the contact        *)
(* handler, with no network call in that run; the text handler makes no    *)
(* call and no write; and a handler that returns None has made no call and *)
(* no write, nor has any handler before it.                                *)
(***************************************************************************)
C27_OneHandlerSideEffects == [][FrameStep]_vars

C27_Witness ==
  /\ pc = "return"
  /\ invoked = <<"document">>
  /\ IsMapping(Get(message.contact))
  /\ CallNames = PipelineOrder
  /\ NoLogWrite


(***************************************************************************)
(* C29: every sendMessage payload handle_update returns - the greeting,    *)
(* the contact acknowledgement, a terminal message of the pipeline -       *)
(* carries as chat_id the id of the chat of the message of that update, an *)
(* int or a str; so does every notification the pipeline sends.            *)
(***************************************************************************)
C29_PayloadAddressedToOwnChat ==
  InHandlers =>
    /\ (pc = "return" /\ IsSendMessage(response)) =>
         /\ IsMapping(Get(message.chat))
         /\ ValidChatId(Get(message.chat.id))
         /\ response.chat_id = Get(message.chat.id)
    /\ \A i \in 1..Len(calls) :
         calls[i].call = "sendMessage" => calls[i].arg = Get(message.chat.id)

C29_Witness ==
  /\ InHandlers
  /\ pc = "return"
  /\ invoked = <<"document">>
  /\ IsSendMessage(response)
  /\ response.text = TEXT_UPLOAD_FAILED
  /\ response.chat_id = PyStr(<<"@", "c">>)
  /\ calls[1] = Call("sendMessage", response.chat_id)

(***************************************************************************)
(* C30: a message whose chat is absent or not an object, or whose chat id  *)
(* is neither an int nor a str, gets a payload from no handler: each of    *)
(* the three returns None, handle_update returns {"status": "ok"}, no call *)
(* is made, the token is not read and the contact log is not written,      *)
(* whatever else the message carries.                                      *)
(***************************************************************************)
C30_NoChatNoHandling ==
  (InHandlers /\ ~ValidChatId(chat_id)) =>
    /\ calls = <<>>
    /\ token = Missing
    /\ \A st \in Stages : stage[st] = NotCalled
    /\ \A i \in 1..Len(hres) : hres[i] = None_
    /\ pc \in {"document", "contact", "text", "return"}
    /\ pc = "return" =>
         /\ response = Status("ok")
         /\ invoked = HandlerOrder
         /\ Len(hres) = 3

C30_Witness ==
  /\ InHandlers
  /\ pc = "return"
  /\ IsMapping(Get(message.chat))
  /\ ~ValidChatId(chat_id)
  /\ IsMapping(Get(message.document))
  /\ Eligible(message.document)
  /\ IsMapping(Get(message.contact))
  /\ IsStr(Get(message.text))
  /\ response = Status("ok")


\* what a request returns, from its own message and the outcomes of its own
\* calls alone: the text of the first stage that failed, or "sent"
RunPayload(m, st) ==
  LET to == ChatIdOf(m)
      located == /\ ~CallFailed(st["getFile"])
                 /\ IsMapping(st["getFile"].body)
                 /\ IsMapping(Get(st["getFile"].body.result))
                 /\ IsStr(Get(st["getFile"].body.result.file_path))
  IN CASE CallFailed(st["getFile"]) \/ ~IsMapping(st["getFile"].body) ->
            SendMessage(to, TEXT_GETFILE_FAILED)
       [] ~located -> SendMessage(to, TEXT_BAD_GETFILE_RESPONSE)
       [] CallFailed(st["download"]) -> SendMessage(to, TEXT_DOWNLOAD_FAILED)
       [] st["download"].body.len > MAX_BYTES -> SendMessage(to, TEXT_TOO_LARGE)
       [] ~converter -> SendMessage(to, TEXT_NO_CONVERTER)
       [] st["convert"].k = "exc" -> SendMessage(to, TEXT_CONVERSION_FAILED)
       [] CallFailed(st["upload"]) -> SendMessage(to, TEXT_UPLOAD_FAILED)
       [] OTHER -> Status("sent")

RunCallNames(run) == [i \in 1..Len(run.calls) |-> run.calls[i].call]

\* one step of two requests in flight: it is the step of one of them, which
\* makes its next call in order and returns what its own outcomes give
RunStep ==
  \A r \in Runs :
    runs'[r] # runs[r] =>
      /\ \A q \in Runs \ {r} : runs'[q] = runs[q]
      /\ runs'[r].pc # "idle" =>
           /\ runs[r].pc # "idle" =>
                /\ runs'[r].message = runs[r].message
                /\ IsPrefix(runs[r].calls, runs'[r].calls)
                /\ \A st \in Stages :
                     runs[r].stage[st] # NotCalled => runs'[r].stage[st] = runs[r].stage[st]
           /\ IsPrefix(RunCallNames(runs'[r]), PipelineOrder)
           /\ \A i \in 1..Len(runs'[r].calls) :
                runs'[r].stage[IF i = 1 THEN "notify"
                               ELSE IF i = 5 THEN "upload"
                               ELSE PipelineOrder[i]] # NotCalled
           /\ runs'[r].pc = "return" =>
                runs'[r].response = RunPayload(runs'[r].message, runs'[r].stage)

(***************************************************************************)
(* C28: with two requests carrying documents in flight and their steps     *)
(* interleaved in any order, every step belongs to one request and leaves  *)
(* the locals of the other as they are; each request makes its calls in    *)
(* the order notify, locate, download, convert, upload; and the payload a  *)
(* request returns is determined by its own message and the outcomes of    *)
(* its own calls.                                                          *)
(***************************************************************************)
C28_RunsIndependent == [][RunStep]_vars

C28_Witness ==
  /\ runs[1].pc = "return"
  /\ runs[1].response = Status("sent")
  /\ runs[2].pc = "return"
  /\ runs[2].message = runs[1].message
  /\ runs[2].response = SendMessage(RunChatId(2), TEXT_DOWNLOAD_FAILED)
  /\ runs[2].stage["notify"] # runs[1].stage["notify"]

====
